---- MODULE Spec2Model ----
(***************************************************************************)
(* Model of the patch application engine of ia-autoreflexiva:              *)
(*   core/patching.py      apply_patch_set (schema gate + apply loop)      *)
(*   core/orchestrator.py  write_files, write_files_bundle, _safe_resolve  *)
(* The filesystem is a map from absolute locations to file states.  A path *)
(* is the sequence of its segments (pathlib's Path.parts); an absolute     *)
(* path starts with the segment "/".  patching.py is modelled in the build *)
(* where pydantic imports (line 11), so the validators of lines 34-69 run. *)
(* The consent ledger and the consent-gated loader are modelled further    *)
(* down:                                                                   *)
(*   modules/autonomous_agent/consent.py  record_consent, is_consent_given,*)
(*                                        verify_ledger, export_ledger     *)
(*   modules/autonomous_agent/core.py     load_core, enable_core           *)
(***************************************************************************)
EXTENDS Integers, Sequences, FiniteSets, TLC

\* ------------------------------------------------------------------ bounds
\* Longest change list / file list of one request.
MaxChanges == 2
\* Number of engine calls in SpecSeq (repeated application).
MaxCalls == 2
\* Latest value of the UTC clock (seconds) in SpecSeq.
MaxClock == 1
\* Number of record_consent calls in SpecLedger.
MaxRecords == 2
\* Longest backlog file.
MaxLines == 3
\* Latest value of the backlog's clock (seconds).
MaxTime == 1
\* Largest limit given to pick_batch.
MaxLimit == 1
\* Largest number of fenced blocks in the Creator's output.
MaxBlocks == 2

VARIABLES
    fs,               \* location -> "absent" | "dir" | "partial" | content
    backups,          \* backup files: set of [target, ts, content]
    clock,            \* UTC time in seconds (datetime.utcnow())
    engine,           \* "idle" | "apply_patch_set" | "write_files" | "write_files_bundle"
    phase,            \* "idle" | "loop" | "opened" | "tmp" | "returned" | "raised" | "crashed"
    changes,          \* the request: ps.changes / parsed_files / files.items()
    idx,              \* position of the for loop (1-based); 0 before the loop
    dry_run,          \* apply_patch_set's dry_run argument
    protected_paths,  \* apply_patch_set's protected_paths argument
    ts,               \* timestamp taken at the start of write_files / write_files_bundle
    res,              \* [applied, skipped, errors, written]: the result lists
    fs0,              \* history: fs when the current call started
    bk0,              \* history: backups when the current call started
    ncalls,           \* history: number of calls started
    prev              \* history: summary of the previous returned call

VARIABLES
    has_portalocker,  \* consent._has_portalocker: the import of portalocker worked
    STRICT,           \* consent._STRICT: AUTONOMOUS_AGENT_STRICT_LOCKING is set
    ledger,           \* the lines of the ledger file, in file order
    ledger_exists,    \* os.path.exists(ledger path)
    ledger_access,    \* "rw" | "wo" (opening to read fails) | "ro" (opening to append fails)
    file_lock,        \* holder of portalocker's exclusive lock on the ledger, or None
    inproc_lock,      \* per process: holder of consent._inproc_lock, or None
    loader_lock,      \* per process: holder of core._loader_lock, or None
    core_initialized, \* per process: core._core_initialized
    pc,               \* per thread: where it is in its call
    call,             \* per thread: the call in progress and the entry being recorded
    ret,              \* per thread: what its last call returned: None | "True" | "False" | "entry" | "raised"
    nrec,             \* history: number of record_consent calls started
    recorded,         \* history: the entries record_consent returned (id, actor, mode)
    reply,            \* what the caller's last query / verify answered, and the ledger it read
    exp,              \* the caller's export_ledger: its position and the content it read
    dest              \* the export destination: absent, a directory, or a file and its lines

VARIABLES
    backlog,          \* the lines of the backlog file (repo/state/backlog.jsonl), in file order
    now,              \* UTC time in seconds (time.gmtime())
    bcall,            \* the caller's last backlog call and its arguments
    bret,             \* what that call gave: the id or the batch it returned, or that it raised
    before            \* history: the backlog file when that call started

VARIABLES
    raw_text,         \* the Creator's output: its fenced blocks, in order
    default_target,   \* parse_creator_outputs' default_target
    looks_multi,      \* what _looks_like_multi_file(raw_text) answered: "none" before the call
    parsed,           \* what parse_creator_outputs(raw_text) gave: files and format, or that it raised
    cpc,              \* where the cycle (main -> run_crew -> main) is
    pending_files,    \* run_crew's pending_files
    auditor,          \* the Auditor's output: its decision and whether its words approve
    ethicist,         \* the Ethicist's output: its vote and whether its words approve
    others_approve,   \* whether the words of Architect, Revolutionary and Creator approve
    outputs,          \* what run_crew returned: "None" or its _rewrite_status
    written_paths,    \* the paths write_files_bundle wrote in this cycle
    module_rewritten  \* rewrite_module wrote modules/autonomous_agent.py in this cycle

VARIABLES
    imported,         \* per process: the package modules.autonomous_agent has been imported
    creating,         \* per worker: where its create_or_reopen is, what it found and returned
    memory,           \* the events in the MemoryStore's file (data/memory.json), in order
    adding            \* per worker: where its add_event is, its event and the data it loaded

patchVars == <<fs, backups, clock, engine, phase, changes, idx, dry_run,
               protected_paths, ts, res, fs0, bk0, ncalls, prev>>
ledgerVars == <<has_portalocker, STRICT, ledger, ledger_exists, ledger_access,
                file_lock, inproc_lock, loader_lock, core_initialized, pc, call,
                ret, nrec, recorded, reply, exp, dest>>
backlogVars == <<backlog, now, bcall, bret, before>>
parseVars == <<raw_text, default_target, looks_multi, parsed>>
cycleVars == <<cpc, pending_files, auditor, ethicist, others_approve, outputs,
               written_paths, module_rewritten>>
importVars == <<imported>>
raceVars == <<creating>>
storeVars == <<memory, adding>>
vars == <<patchVars, ledgerVars, backlogVars, parseVars, cycleVars, importVars, raceVars,
          storeVars>>
\* What the calls of one component leave alone: the other components' state.
offPatch == <<ledgerVars, backlogVars, parseVars, cycleVars, importVars, raceVars, storeVars>>
offLedger == <<patchVars, backlogVars, parseVars, cycleVars, importVars, raceVars, storeVars>>
offBacklog == <<patchVars, ledgerVars, parseVars, cycleVars, importVars, raceVars, storeVars>>
offCycle == <<patchVars, ledgerVars, backlogVars, importVars, raceVars, storeVars>>

\* ------------------------------------------------------------------ values
None == "None"
SAFE_OPS == {"upsert", "update", "delete"}

\* The repository root (repo_root / BASE_DIR / root_dir), as an absolute location.
Root == <<"repo">>

\* Locations whose state the model tracks.  /repo-evil is a sibling of the
\* root whose name has the root's name as a string prefix; /etc is elsewhere.
LocA   == <<"repo", "a.py">>
LocD   == <<"repo", "d">>
LocDF  == <<"repo", "d", "f.py">>
LocSib == <<"repo-evil", "x">>
LocEtc == <<"etc", "passwd">>
FileLocs == {LocA, LocD, LocDF, LocSib, LocEtc}
\* Directories that exist throughout.
AlwaysDir == {<<>>, Root, <<"repo-evil">>, <<"etc">>}

\* Input paths, as Path(v).parts.
PathA      == <<"a.py">>
PathD      == <<"d">>
PathDF     == <<"d", "f.py">>
PathUpIn   == <<"d", "..", "a.py">>
PathUpOut  == <<"..", "repo-evil", "x">>
PathAbs    == <<"/", "etc", "passwd">>
PathEmpty  == <<>>
PathLink   == <<"lnk", "passwd">>
PathUpEtc  == <<"..", "etc">>

\* ------------------------------------------------------------- path helpers
IsAbs(p) == p # <<>> /\ p[1] = "/"
HasDotDot(p) == \E i \in 1..Len(p) : p[i] = ".."
IsBlank(p) == p = <<>>

\* The one symbolic link of the working tree: /repo/lnk -> /etc.
Symlink(q) == IF q = <<"repo", "lnk">> THEN <<"etc">> ELSE q

RECURSIVE Walk(_, _)
Walk(acc, rest) ==
    IF rest = <<>> THEN acc
    ELSE IF Head(rest) = ".."
         THEN Walk(IF acc = <<>> THEN acc ELSE SubSeq(acc, 1, Len(acc) - 1), Tail(rest))
         ELSE Walk(Symlink(Append(acc, Head(rest))), Tail(rest))

\* (base / p).resolve(): an absolute p replaces base; ".." and links are resolved.
Resolve(base, p) == IF IsAbs(p) THEN Walk(<<>>, Tail(p)) ELSE Walk(base, p)

\* a.startswith(b) for two segment names.
NamePrefix(b, a) == a = b \/ (b = "repo" /\ a = "repo-evil")

\* str(t).startswith(str(base)): a prefix of the STRING, so the last segment
\* of base need only be a prefix of the segment of t at that place.
StrStartsWith(t, base) ==
    /\ Len(t) >= Len(base)
    /\ SubSeq(t, 1, Len(base) - 1) = SubSeq(base, 1, Len(base) - 1)
    /\ NamePrefix(base[Len(base)], t[Len(base)])

\* t is base or lies under it.
IsUnder(t, base) == Len(t) >= Len(base) /\ SubSeq(t, 1, Len(base)) = base

\* _safe_target: passes iff str(target).startswith(str(root)).
SafeTargetOK(t) == StrStartsWith(t, Root)

\* _safe_resolve: passes iff tgt_s == base_s or tgt_s.startswith(base_s + "/").
SafeResolveOK(t) == IsUnder(t, Root)

Parent(l) == SubSeq(l, 1, Len(l) - 1)

\* ------------------------------------------------------------- filesystem
Exists(f, l) == l \in AlwaysDir \/ (l \in FileLocs /\ f[l] # "absent")
IsDir(f, l) == l \in AlwaysDir \/ (l \in FileLocs /\ f[l] = "dir")

\* path.parent.mkdir(parents=True, exist_ok=True): FileExistsError when the
\* parent exists and is a file.
MkdirFails(f, l) == Parent(l) \in FileLocs /\ f[Parent(l)] \notin {"absent", "dir"}
Mkdir(f, l) ==
    IF Parent(l) \in FileLocs /\ f[Parent(l)] = "absent"
    THEN [f EXCEPT ![Parent(l)] = "dir"]
    ELSE f

\* shutil.rmtree(target) / target.unlink(): the target and all below it go.
Remove(f, l) == [x \in FileLocs |-> IF IsUnder(x, l) THEN "absent" ELSE f[x]]
\* A backup file lives beside its target, so it goes with the target's directory.
RemoveBackups(bk, l) == {b \in bk : ~IsUnder(Parent(b.target), l)}

\* backup = target.with_suffix(suffix + ".bak-<ts>"); backup.write_text(target.read_text()):
\* one backup file per (target, ts), overwritten when written again.
WithBackup(bk, l, t, c) ==
    {b \in bk : ~(b.target = l /\ b.ts = t)} \cup {[target |-> l, ts |-> t, content |-> c]}

\* ------------------------------------------------------------ schema gate
Ch(p, o, c, d) == [path |-> p, op |-> o, content |-> c, diff |-> d]

OpValid(o) == o \in SAFE_OPS

PathSecure_NoTraversalCheck(p) == ~IsAbs(p) /\ ~IsBlank(p)
\* PatchChange._path_secure: no absolute path, no ".." part, not blank.
PathSecure(p) == ~IsAbs(p) /\ ~HasDotDot(p) /\ ~IsBlank(p)

ValidChange(c) == PathSecure(c.path) /\ OpValid(c.op)

ValidPatchSet_NoChangeValidation(chs) == chs # <<>>
\* PatchSet(**data): every change validates and the list is not empty.  The
\* retry of line 158 and the construction of lines 170-173 validate the same
\* model again and raise again.
ValidPatchSet(chs) == chs # <<>> /\ \A i \in 1..Len(chs) : ValidChange(chs[i])

\* ---------------------------------------------------------------- inputs
\* Changes a caller may submit: one for each branch of the apply loop and
\* for each validator of the gate.
ApplyUniverse ==
    { Ch(PathA,     "upsert", "c2", None),
      Ch(PathA,     "update", "c1", "diff"),
      Ch(PathA,     "update", None, "diff"),
      Ch(PathA,     "delete", None, None),
      Ch(PathDF,    "upsert", "c2", None),
      Ch(PathDF,    "upsert", None, None),
      Ch(PathDF,    "update", None, "diff"),
      Ch(PathDF,    "delete", None, None),
      Ch(PathD,     "upsert", "c1", None),
      Ch(PathD,     "delete", None, None),
      Ch(PathLink,  "upsert", "c1", None),
      Ch(PathUpOut, "upsert", "c1", None),
      Ch(PathUpIn,  "delete", None, None),
      Ch(PathAbs,   "upsert", "c1", None),
      Ch(PathEmpty, "upsert", "c1", None),
      Ch(PathA,     "chmod",  "c1", None) }

\* ParsedFile(path, content) / an item of the files dict.
FileUniverse ==
    { Ch(PathA,     "upsert", "c2", None),
      Ch(PathDF,    "upsert", "c1", None),
      Ch(PathD,     "upsert", "c1", None),
      Ch(PathUpIn,  "upsert", "c2", None),
      Ch(PathUpOut, "upsert", "c1", None),
      Ch(PathAbs,   "upsert", "c2", None),
      Ch(PathEmpty, "upsert", "c1", None),
      Ch(PathLink,  "upsert", "c1", None) }

\* Requests of repeated application: one upsert or delete of a.py.
SeqUniverse ==
    { Ch(PathA, "upsert", "c1", None),
      Ch(PathA, "upsert", "c2", None),
      Ch(PathA, "upsert", None, "diff"),
      Ch(PathA, "delete", None, None) }

\* The files among them: a ParsedFile carries a content.
SeqFileUniverse == { c \in SeqUniverse : c.op = "upsert" /\ c.content # None }

ProtectedChoices == { <<>>, <<PathDF>>, <<PathD>>, <<PathUpEtc>> }

SeqsUpTo(S, n) == UNION { [1..k -> S] : k \in 0..n }
Singles(S) == { <<c>> : c \in S }
DistinctPaths(chs) ==
    \A i, j \in 1..Len(chs) : i # j => chs[i].path # chs[j].path

\* Working trees a call may start from: an empty root, and a populated one.
InitTrees ==
    { [l \in FileLocs |-> IF l = LocEtc THEN "c1" ELSE "absent"],
      [l \in FileLocs |-> CASE l = LocA   -> "c1"
                            [] l = LocD   -> "dir"
                            [] l = LocDF  -> "c1"
                            [] l = LocEtc -> "c1"
                            [] OTHER      -> "absent"] }

EmptyRes == [applied |-> <<>>, skipped |-> <<>>, errors |-> <<>>, written |-> <<>>]
NoPrev == [engine |-> "idle", changes |-> <<>>, wrote |-> FALSE]

\* ---------------------------------------------------- the ledger's values
Procs == {"p1", "p2"}
\* Two threads of one process and one thread of another.
Threads == {"p1t1", "p1t2", "p2t1"}
ProcOf(t) == IF t = "p2t1" THEN "p2" ELSE "p1"

Actors == {"op1", "op2"}
Modes == {"load", "enable"}

\* The keys record_consent writes, and those verify_ledger asks for.
EntryFields == {"id", "ts", "actor", "mode", "rationale", "pid", "thread", "schema_version"}
RequiredFields == {"id", "ts", "actor", "mode", "rationale", "schema_version"}

\* A line of the ledger file: a JSON object with some keys, a JSON value
\* that is not an object, text that is not JSON, or a blank line.
ObjectLine(keys, a, m, tsok, id) ==
    [kind |-> "object", keys |-> keys, actor |-> a, mode |-> m, ts_ok |-> tsok, id |-> id]
EntryLine(a, m, id) == ObjectLine(EntryFields, a, m, TRUE, id)
ValueLine == [kind |-> "value"]
GarbageLine == [kind |-> "garbage"]
BlankLine == [kind |-> "blank"]

\* Ledger files a run may start from: none, and files that were edited by
\* hand (the id -1 marks an entry that no call of this run wrote).
InitLedgers ==
    { <<>>,
      <<BlankLine>>,
      <<EntryLine("op2", "load", -1)>>,
      <<GarbageLine, BlankLine, ObjectLine(EntryFields \ {"rationale", "mode"}, "op1", None, FALSE, -1)>>,
      <<ValueLine, EntryLine("op1", "enable", -1)>>,
      <<ObjectLine(EntryFields \ {"pid", "thread"}, "op1", "load", TRUE, -1)>> }

\* A thread's call: the function, the entry being recorded, load_core's
\* consent_ok, the modes this call has appended an entry for so far, and
\* what _core_initialized was when load_core was entered.
NoCall == [fn |-> "none", actor |-> None, mode |-> None, consent_ok |-> FALSE,
           logged |-> {}, initialized |-> FALSE]
NoReply == [op |-> "none", actor |-> None, mode |-> None, raised |-> FALSE,
            result |-> FALSE, errors |-> <<>>, read |-> <<>>]
DestAbsent == [kind |-> "absent", lines |-> <<>>]
DestDir == [kind |-> "dir", lines |-> <<>>]
DestFile(lines) == [kind |-> "file", lines |-> lines]
NoExport == [pc |-> "idle", content |-> <<>>, tmp |-> FALSE]

\* The ledger side before any call: nothing is held, no core is initialized.
LedgerAtRest ==
    /\ file_lock = None
    /\ inproc_lock = [p \in Procs |-> None]
    /\ loader_lock = [p \in Procs |-> None]
    /\ core_initialized = [p \in Procs |-> FALSE]
    /\ pc = [t \in Threads |-> "idle"]
    /\ call = [t \in Threads |-> NoCall]
    /\ ret = [t \in Threads |-> None]
    /\ nrec = 0
    /\ recorded = {}
    /\ reply = NoReply
    /\ exp = NoExport
    /\ dest = DestAbsent

\* ---------------------------------------------------- the backlog's values
\* tools/backlog_lib.py.  A line of the backlog is the JSON object of one
\* BacklogItem; a line number is the text of the number ("0", "1") so that
\* it compares with None; a title is the sequence of its words, and an id
\* the sequence of its parts.
Statuses == {"todo", "in_progress", "review", "done", "blocked"}
Closed == {"done", "blocked"}
Owners == {"creator", "auditor"}
Issue(k, f, l, r, t) == [kind |-> k, file |-> f, line |-> l, rule |-> r, title |-> t]
\* The detected issues: a lint finding, and a failing test reported once
\* without and once with empty file, line and rule.
IssueLint == Issue("lint", "a.py", "1", "E501", <<"line", "too", "long">>)
IssueTest == Issue("test", None, None, None, <<"test_agent", "fails">>)
IssueTestBlank == Issue("test", "", "0", "", <<"test_agent", "fails">>)
Issues == {IssueLint, IssueTest, IssueTestBlank}
\* `p or ""` and `str(line or 0)`.
OrEmpty(p) == IF p = None THEN "" ELSE p
StrLineOr0(l) == IF l \in {None, "0"} THEN "0" ELSE l
\* stable_digest(*parts): the SHA-1 of the parts, each followed by a NUL
\* byte, cut to 12 hex digits; the model takes the digests of different part
\* lists to differ.  Its callers pass strings, which `p or ""` keeps.
stable_digest(parts) == parts
\* The digest create_or_reopen and find_open_by_digest compute (a title is
\* never None here, so `title or ""` keeps it).
DigestOf(k) ==
    stable_digest(<<k.kind, OrEmpty(k.file), StrLineOr0(k.line), OrEmpty(k.rule), k.title>>)
NoDigest == <<>>
\* f"T-{digest}", and the id of a task nobody created.
DigestId(d) == <<"T-">> \o d
StrayId == <<"X-1">>
\* meta: {"digest": ...} and / or {"changes": ...}; an absent key is None.
Meta(d, c) == [digest |-> d, changes |-> c]
\* BacklogItem(...): created_at and updated_at are not passed by any caller.
BacklogItem(id, kind, title, status, owner, file, line, rule, source, note, meta) ==
    [id |-> id, kind |-> kind, title |-> title, status |-> status, owner |-> owner,
     file |-> file, line |-> line, rule |-> rule, source |-> source, note |-> note,
     created_at |-> None, updated_at |-> None, meta |-> meta]
NoBCall == [fn |-> "none", issue |-> IssueLint, owner |-> None, id |-> <<>>,
            status |-> None, limit |-> 0,
            kinds |-> [given |-> FALSE, vals |-> {}],
            owners |-> [given |-> FALSE, vals |-> {}]]
NoRet == [raised |-> FALSE, id |-> <<>>, batch |-> <<>>]
BacklogAtRest ==
    /\ backlog = <<>>
    /\ now = 0
    /\ bcall = NoBCall
    /\ bret = NoRet
    /\ before = <<>>

\* ------------------------------------------------ the Creator's output
\* core/orchestrator.py, crew_config.py.  The text is the sequence of its
\* fenced blocks (fences are balanced; what stands outside the fences is
\* matched by none of the patterns).  A block is its language tag, the
\* first file header of its body, the rest of the body, and, for a block
\* tagged json, the JSON value of the body.
NoHeader == [token |-> None, path |-> <<>>]
Header(token, path) == [token |-> token, path |-> path]
NoJson == [braced |-> FALSE, valid |-> FALSE, files |-> [kind |-> "missing", entries |-> <<>>]]
\* A body `{ ... }`: valid JSON or not; its "files" member.
Json(valid, kind, entries) ==
    [braced |-> TRUE, valid |-> valid, files |-> [kind |-> kind, entries |-> entries]]
\* An element of "files": an object with its path (empty when the key is
\* absent, as f.get("path", "") has it), its content and its language (None
\* when the key is absent), or something else.
FileObject(path, content, language) ==
    [object |-> TRUE, path |-> path, content |-> content, language |-> language]
NotAnObject == [object |-> FALSE, path |-> <<>>, content |-> None, language |-> None]
\* The value of "content" when it is not a string.
NotAString == "<number>"
Block(lang, header, rest, json) == [lang |-> lang, header |-> header, rest |-> rest, json |-> json]
\* Bodies: nothing, 3 characters, 8 characters.
BodyNone == ""
BodyShort == "x=1"
BodyCode == "print(1)"
BodyLen(rest) == IF rest = BodyNone THEN 0 ELSE IF rest = BodyShort THEN 3 ELSE 8
\* crew_config._looks_like_multi_file: len(body_clean) < 5.
MinBodyLen == 5
JsonBody == "{...}"
PyFileA == Block("python", Header("file", <<"modules", "a.py">>), BodyCode, NoJson)
PyFileB == Block("python", Header("file", <<"modules", "b.py">>), BodyCode, NoJson)
PyFileBShort == Block("python", Header("file", <<"modules", "b.py">>), BodyShort, NoJson)
PyFileAbs == Block("python", Header("file", <<"/", "etc", "x.py">>), BodyCode, NoJson)
PyPathC == Block("python", Header("path", <<"modules", "c.py">>), BodyCode, NoJson)
PyBare == Block("python", NoHeader, BodyCode, NoJson)
PyEmpty == Block("python", NoHeader, BodyNone, NoJson)
TextBare == Block("", NoHeader, BodyCode, NoJson)
JsonManifest ==
    Block("json", NoHeader, JsonBody,
          Json(TRUE, "list", <<FileObject(<<"modules", "a.py">>, "a = 1", None),
                               FileObject(<<"modules", "b.py">>, "b = 2", "Python")>>))
JsonSkipped ==
    Block("json", NoHeader, JsonBody,
          Json(TRUE, "list", <<FileObject(<<>>, "a = 1", None),
                               FileObject(<<"modules", "b.py">>, NotAString, None)>>))
JsonNoFiles == Block("json", NoHeader, JsonBody, Json(TRUE, "missing", <<>>))
JsonFilesNumber == Block("json", NoHeader, JsonBody, Json(TRUE, "number", <<>>))
JsonNonObject ==
    Block("json", NoHeader, JsonBody,
          Json(TRUE, "list", <<FileObject(<<"modules", "a.py">>, "a = 1", None), NotAnObject>>))
JsonInvalid == Block("json", NoHeader, JsonBody, Json(FALSE, "missing", <<>>))
Blocks ==
    {PyFileA, PyFileB, PyFileBShort, PyFileAbs, PyPathC, PyBare, PyEmpty, TextBare,
     JsonManifest, JsonSkipped, JsonNoFiles, JsonFilesNumber, JsonNonObject, JsonInvalid}
TextsOf(blocks) == UNION {[1..n -> blocks] : n \in 0..MaxBlocks}
\* modules/autonomous_agent.py or, when the package exists, its __init__.py.
DefaultTargets ==
    {<<"modules", "autonomous_agent.py">>, <<"modules", "autonomous_agent", "__init__.py">>}
\* ParsedFile; a content is the text of a tag, a header and a body.
Content(tag, header, rest) == [tag |-> tag, header |-> header, rest |-> rest]
ParsedFile(path, content, language) == [path |-> path, content |-> content, language |-> language]
NotParsed == [state |-> "none", via |-> "none", files |-> <<>>]
NoOutput == [decision |-> "UNKNOWN", approves |-> FALSE]
\* Two threads that share the backlog file, or one MemoryStore.
Workers == {"w1", "w2"}
NoCreate == [pc |-> "idle", issue |-> None, owner |-> None, found |-> <<>>, id |-> <<>>]
NoAdd == [pc |-> "idle", event |-> None, data |-> <<>>]
\* Every process has imported the package; no worker is in a call.
WorkersAtRest ==
    /\ creating = [w \in Workers |-> NoCreate]
    /\ memory = <<>>
    /\ adding = [w \in Workers |-> NoAdd]
OthersAtRest ==
    /\ imported = [p \in Procs |-> TRUE]
    /\ WorkersAtRest
CycleAtRest ==
    /\ raw_text = <<>>
    /\ default_target = <<"modules", "autonomous_agent.py">>
    /\ looks_multi = "none"
    /\ parsed = NotParsed
    /\ cpc = "idle"
    /\ pending_files = NotParsed
    /\ auditor = NoOutput
    /\ ethicist = NoOutput
    /\ others_approve = FALSE
    /\ outputs = "None"
    /\ written_paths = {}
    /\ module_rewritten = FALSE

Init ==
    /\ has_portalocker = FALSE /\ STRICT = FALSE
    /\ ledger = <<>> /\ ledger_exists = FALSE /\ ledger_access = "rw"
    /\ LedgerAtRest
    /\ BacklogAtRest
    /\ CycleAtRest
    /\ OthersAtRest
    /\ fs \in InitTrees
    /\ backups = {}
    /\ clock = 0
    /\ engine = "idle"
    /\ phase = "idle"
    /\ changes = <<>>
    /\ idx = 0
    /\ dry_run = FALSE
    /\ protected_paths = <<>>
    /\ ts = 0
    /\ res = EmptyRes
    /\ fs0 = fs
    /\ bk0 = {}
    /\ ncalls = 0
    /\ prev = NoPrev

\* ------------------------------------------------------------- the calls
\* Whether a result holds a "written" entry.
Wrote(r) ==
    \/ \E k \in 1..Len(r.applied) : r.applied[k].tag = "written"
    \/ \E k \in 1..Len(r.written) : r.written[k].tag = "written"

\* What every call sets at its start; prev keeps what the call before it,
\* if it returned, was asked and whether it wrote.
Enter(e, chs, dr, pp) ==
    /\ prev' = IF phase = "returned"
               THEN [engine |-> engine, changes |-> changes, wrote |-> Wrote(res)]
               ELSE NoPrev
    /\ engine' = e
    /\ changes' = chs
    /\ dry_run' = dr
    /\ protected_paths' = pp
    /\ res' = EmptyRes
    /\ fs0' = fs
    /\ bk0' = backups
    /\ ncalls' = ncalls + 1
    /\ UNCHANGED <<fs, backups, clock>>
    /\ UNCHANGED offPatch

\* apply_patch_set up to the loop: the request is validated as a whole; an
\* invalid one raises out of the call before the loop starts.
ApplyPatchSet(reqs) ==
    \E chs \in reqs, dr \in BOOLEAN, pp \in ProtectedChoices :
        /\ Enter("apply_patch_set", chs, dr, pp)
        /\ ts' = ts
        /\ IF ValidPatchSet(chs)
           THEN idx' = 1 /\ phase' = "loop"
           ELSE idx' = 0 /\ phase' = "raised"

\* write_files up to its loop.
WriteFiles(reqs) ==
    \E files \in reqs :
        /\ Enter("write_files", files, FALSE, <<>>)
        /\ ts' = clock
        /\ idx' = 1
        /\ phase' = IF files = <<>> THEN "returned" ELSE "loop"

\* write_files_bundle up to its loop; the keys of a dict are distinct.
WriteFilesBundle(reqs) ==
    \E files \in reqs :
        /\ DistinctPaths(files)
        /\ Enter("write_files_bundle", files, FALSE, <<>>)
        /\ ts' = clock
        /\ idx' = 1
        /\ phase' = IF files = <<>> THEN "returned" ELSE "loop"

\* ------------------------------------------------------- the loops' steps
Entry(i, tag) == [i |-> i, path |-> changes[i].path, op |-> changes[i].op, tag |-> tag]
Target(i) == Resolve(Root, changes[i].path)

\* The end of one iteration: the loop moves on, and returns after the last.
Advance(r) ==
    /\ res' = r
    /\ idx' = idx + 1
    /\ phase' = IF idx + 1 > Len(changes) THEN "returned" ELSE "loop"

\* An iteration that stays inside the current change (a write in progress).
Stay(ph) == phase' = ph /\ UNCHANGED <<idx, res>>

\* An exception that leaves the call.
Raise == phase' = "raised" /\ UNCHANGED <<idx, res>>

CallFrame == <<clock, engine, changes, dry_run, protected_paths, ts, fs0, bk0, ncalls, prev,
               offPatch>>

\* Outcomes of a system call: success, EACCES (a PermissionError), EIO (an OSError).
IOOutcomes == {"ok", "EACCES", "EIO"}

\* The except clauses of apply_patch_set: a PermissionError is recorded in
\* skipped, any other Exception in errors.
ListOf(exc) ==
    IF exc \in {"Illegal target outside repo", "Attempted to modify protected path", "EACCES"}
    THEN "skipped" ELSE "errors"

Caught_Reraised(r, exc) == res' = r /\ Raise
\* An exception of the loop body is caught inside the loop: an entry for the
\* current change is appended and the loop goes on with the next change.
Caught(r, exc) == Advance([r EXCEPT ![ListOf(exc)] = Append(@, Entry(idx, exc))])

\* The scan of protected_paths, in list order: each entry goes through
\* _safe_target (which may raise), then is compared with the target.
RECURSIVE ProtectedScan(_, _)
ProtectedScan(target, pp) ==
    IF pp = <<>> THEN "clear"
    ELSE LET q == Resolve(Root, Head(pp)) IN
         IF ~SafeTargetOK(q) THEN "illegal_protected"
         ELSE IF target = q \/ (target # q /\ IsUnder(target, q)) THEN "protected"
         ELSE ProtectedScan(target, Tail(pp))

Payload_DiffFirst(ch) ==
    IF ch.diff # None THEN "diff-based updates are not supported yet"
    ELSE IF ch.content # None THEN "write"
    ELSE "update/upsert requires 'content' or 'diff'"
\* The payload of an upsert/update: content is looked at first and, when
\* present, written; only then a diff, which is refused; else nothing to apply.
Payload(ch) ==
    IF ch.content # None THEN "write"
    ELSE IF ch.diff # None THEN "diff-based updates are not supported yet"
    ELSE "update/upsert requires 'content' or 'diff'"

\* The branch of the loop body a change takes, in the order of the code.
Branch(ch, pp) ==
    IF ~SafeTargetOK(Resolve(Root, ch.path)) THEN "illegal_target"
    ELSE LET scan == ProtectedScan(Resolve(Root, ch.path), pp) IN
         IF scan # "clear" THEN scan
         ELSE IF ch.op = "delete" THEN "delete"
         ELSE IF ch.op \in {"upsert", "update"}
              THEN Payload(ch)
              ELSE "Unsupported op"

\* Guard failure or protected path: the change is not applied.  A protected
\* change is appended to skipped where it is found AND again by the handler
\* of the PermissionError raised right after.
ApplySkip ==
    /\ engine = "apply_patch_set" /\ phase = "loop"
    /\ LET b == Branch(changes[idx], protected_paths) IN
        /\ b \in {"illegal_target", "illegal_protected", "protected"}
        /\ IF b = "protected"
           THEN Caught([res EXCEPT !.skipped = Append(@, Entry(idx, "protected_path"))],
                       "Attempted to modify protected path")
           ELSE Caught(res, "Illegal target outside repo")
    /\ UNCHANGED <<fs, backups>>
    /\ UNCHANGED CallFrame

\* An upsert/update without content, or an op that is none of the three.
ApplyValueError ==
    /\ engine = "apply_patch_set" /\ phase = "loop"
    /\ LET b == Branch(changes[idx], protected_paths) IN
        /\ b \in {"diff-based updates are not supported yet",
                  "update/upsert requires 'content' or 'diff'", "Unsupported op"}
        /\ Caught(res, b)
    /\ UNCHANGED <<fs, backups>>
    /\ UNCHANGED CallFrame

RemovalAttempted_Unguarded(f, t) == TRUE
\* if target.exists(): the removal is attempted only for an existing target.
RemovalAttempted(f, t) == Exists(f, t)

ApplyDelete ==
    /\ engine = "apply_patch_set" /\ phase = "loop"
    /\ Branch(changes[idx], protected_paths) = "delete"
    /\ \/ /\ dry_run
          /\ Advance([res EXCEPT !.applied = Append(@, Entry(idx, "dry_run"))])
          /\ UNCHANGED <<fs, backups>>
       \/ /\ ~dry_run
          /\ ~RemovalAttempted(fs, Target(idx))
          /\ Advance([res EXCEPT !.applied = Append(@, Entry(idx, "deleted"))])
          /\ UNCHANGED <<fs, backups>>
       \/ /\ ~dry_run
          /\ RemovalAttempted(fs, Target(idx))
          /\ \E io \in IOOutcomes :
                IF ~Exists(fs, Target(idx))
                THEN Caught(res, "FileNotFoundError") /\ UNCHANGED <<fs, backups>>
                ELSE IF io = "ok"
                THEN /\ fs' = Remove(fs, Target(idx))
                     /\ backups' = RemoveBackups(backups, Target(idx))
                     /\ Advance([res EXCEPT !.applied = Append(@, Entry(idx, "deleted"))])
                ELSE Caught(res, io) /\ UNCHANGED <<fs, backups>>
    /\ UNCHANGED CallFrame

ApplyWrite_DryRunIgnored ==
    /\ engine = "apply_patch_set" /\ phase = "loop"
    /\ Branch(changes[idx], protected_paths) = "write"
    /\ LET t == Target(idx) IN
       IF MkdirFails(fs, t)
       THEN Caught(res, "FileExistsError") /\ UNCHANGED fs
       ELSE IF IsDir(fs, t)
       THEN Caught(res, "IsADirectoryError") /\ UNCHANGED fs
       ELSE \E io \in IOOutcomes :
              IF io = "ok"
              THEN fs' = [Mkdir(fs, t) EXCEPT ![t] = "partial"] /\ Stay("opened")
              ELSE fs' = Mkdir(fs, t) /\ Caught(res, io)
    /\ UNCHANGED backups
    /\ UNCHANGED CallFrame
\* _write_text up to the open: the parent directory is made, then
\* write_text opens the target for writing, which truncates it.
ApplyWrite ==
    /\ engine = "apply_patch_set" /\ phase = "loop"
    /\ Branch(changes[idx], protected_paths) = "write"
    /\ \/ /\ dry_run
          /\ Advance([res EXCEPT !.applied = Append(@, Entry(idx, "dry_run"))])
          /\ UNCHANGED fs
       \/ /\ ~dry_run
          /\ LET t == Target(idx) IN
             IF MkdirFails(fs, t)
             THEN Caught(res, "FileExistsError") /\ UNCHANGED fs
             ELSE IF IsDir(fs, t)
             THEN Caught(res, "IsADirectoryError") /\ UNCHANGED fs
             ELSE \E io \in IOOutcomes :
                    IF io = "ok"
                    THEN fs' = [Mkdir(fs, t) EXCEPT ![t] = "partial"] /\ Stay("opened")
                    ELSE fs' = Mkdir(fs, t) /\ Caught(res, io)
    /\ UNCHANGED backups
    /\ UNCHANGED CallFrame

\* write_text's write and close: the content reaches the opened target.
FlushTarget ==
    /\ phase = "opened"
    /\ fs' = [fs EXCEPT ![Target(idx)] = changes[idx].content]
    /\ IF engine = "apply_patch_set"
       THEN Advance([res EXCEPT !.applied = Append(@, Entry(idx, "written"))])
       ELSE Advance([res EXCEPT !.written = Append(@, Entry(idx, "written"))])
    /\ UNCHANGED backups
    /\ UNCHANGED CallFrame

\* The backup of an existing target, which may fail (the failure is printed
\* and the write goes on); reading a directory always fails.
BackedUp(f, bk, t, succeeded) ==
    IF Exists(f, t) /\ ~IsDir(f, t) /\ succeeded /\ t \in FileLocs
    THEN WithBackup(bk, t, ts, f[t])
    ELSE bk

\* write_files, one file up to the open of its target.  An unsafe path is
\* skipped with a message; any failure of the write is printed and the loop
\* goes on.
WriteFilesEntry ==
    /\ engine = "write_files" /\ phase = "loop"
    /\ LET t == Target(idx) IN
       IF ~SafeResolveOK(t) \/ MkdirFails(fs, t)
       THEN Advance(res) /\ UNCHANGED <<fs, backups>>
       ELSE \E succeeded \in BOOLEAN, io \in IOOutcomes :
              /\ backups' = BackedUp(Mkdir(fs, t), backups, t, succeeded)
              /\ IF IsDir(fs, t) \/ io # "ok"
                 THEN fs' = Mkdir(fs, t) /\ Advance(res)
                 ELSE fs' = [Mkdir(fs, t) EXCEPT ![t] = "partial"] /\ Stay("opened")
    /\ UNCHANGED CallFrame

\* write_files_bundle, one file up to its temporary file: the key is
\* checked, the target resolved (no guard), its directory made, an existing
\* target backed up, and the content written to a temporary file beside it.
BundleEntry ==
    /\ engine = "write_files_bundle" /\ phase = "loop"
    /\ LET t == Target(idx) IN
       IF IsBlank(changes[idx].path) \/ MkdirFails(fs, t)
       THEN Raise /\ UNCHANGED <<fs, backups>>
       ELSE \E succeeded \in BOOLEAN :
              /\ backups' = BackedUp(Mkdir(fs, t), backups, t, succeeded)
              /\ fs' = Mkdir(fs, t)
              /\ Stay("tmp")
    /\ UNCHANGED CallFrame

\* os.replace(tmp, target): the target changes in one step; replacing a
\* directory raises, the temporary file is removed and the error leaves the call.
BundleReplace ==
    /\ engine = "write_files_bundle" /\ phase = "tmp"
    /\ IF IsDir(fs, Target(idx))
       THEN Raise /\ UNCHANGED fs
       ELSE /\ fs' = [fs EXCEPT ![Target(idx)] = changes[idx].content]
            /\ Advance([res EXCEPT !.written = Append(@, Entry(idx, "written"))])
    /\ UNCHANGED backups
    /\ UNCHANGED CallFrame

\* The process dies inside a call: the filesystem stays as it is.
Crash ==
    /\ phase \in {"loop", "opened", "tmp"}
    /\ phase' = "crashed"
    /\ changes' = <<>> /\ idx' = 0 /\ res' = EmptyRes
    /\ UNCHANGED <<fs, backups, clock, engine, dry_run, protected_paths, ts,
                   fs0, bk0, ncalls, prev>>
    /\ UNCHANGED offPatch

Rest == {"idle", "returned", "raised", "crashed"}

\* Time passes between two calls.
Tick ==
    /\ phase \in Rest
    /\ clock < MaxClock
    /\ clock' = clock + 1
    /\ UNCHANGED <<fs, backups, engine, phase, changes, idx, dry_run,
                   protected_paths, ts, res, fs0, bk0, ncalls, prev>>
    /\ UNCHANGED offPatch

Step ==
    \/ ApplySkip
    \/ ApplyValueError
    \/ ApplyDelete
    \/ ApplyWrite
    \/ FlushTarget
    \/ WriteFilesEntry
    \/ BundleEntry
    \/ BundleReplace
    \/ Crash

\* --------------------------------------------------------- specifications
\* One call of one engine on a working tree.
CallApply == phase = "idle" /\ ApplyPatchSet(SeqsUpTo(ApplyUniverse, MaxChanges))
CallWriteFiles == phase = "idle" /\ WriteFiles(SeqsUpTo(FileUniverse, MaxChanges))
CallBundle == phase = "idle" /\ WriteFilesBundle(SeqsUpTo(FileUniverse, MaxChanges))

NextPatch == CallApply \/ CallWriteFiles \/ CallBundle \/ Step
SpecPatch == Init /\ [][NextPatch]_vars

\* Repeated application: up to MaxCalls calls, one after the other, each a
\* single change of a.py, with time passing in between.
ReApply == phase \in Rest /\ ncalls < MaxCalls /\ ApplyPatchSet(Singles(SeqUniverse))
ReWriteFiles == phase \in Rest /\ ncalls < MaxCalls /\ WriteFiles(Singles(SeqFileUniverse))
ReBundle == phase \in Rest /\ ncalls < MaxCalls /\ WriteFilesBundle(Singles(SeqFileUniverse))

NextSeq == ReApply \/ ReWriteFiles \/ ReBundle \/ Tick \/ Step
SpecSeq == Init /\ [][NextSeq]_vars

\* ------------------------------------------------------- the consent ledger
\* A run of the ledger starts from some build (portalocker importable or
\* not), some environment (strict locking or not), some ledger file and some
\* access rights on it; the patch engine is idle throughout.
LedgerStart(builds, ledgers, rights) ==
    /\ has_portalocker \in builds /\ STRICT \in builds
    /\ ledger \in ledgers
    /\ ledger_exists = (ledger # <<>>)
    /\ ledger_access \in rights
    /\ LedgerAtRest
    /\ BacklogAtRest
    /\ CycleAtRest
    /\ WorkersAtRest
    /\ fs = [l \in FileLocs |-> IF l = LocEtc THEN "c1" ELSE "absent"]
    /\ backups = {} /\ clock = 0 /\ engine = "idle" /\ phase = "idle"
    /\ changes = <<>> /\ idx = 0 /\ dry_run = FALSE /\ protected_paths = <<>>
    /\ ts = 0 /\ res = EmptyRes /\ fs0 = fs /\ bk0 = {} /\ ncalls = 0 /\ prev = NoPrev

configVars == <<has_portalocker, STRICT, ledger_access>>
readerVars == <<reply, exp, dest>>
coreVars == <<loader_lock, core_initialized>>

\* A caller that starts a new call has dropped what its last query, verify
\* or export gave it.
Drop == reply' = NoReply /\ exp' = NoExport

\* A thread enters record_consent(actor, mode): the entry is built and
\* serialized to one line.
StartRecord(t, fn, a, m, logged) ==
    /\ nrec' = nrec + 1
    /\ call' = [call EXCEPT ![t] = [fn |-> fn, actor |-> a, mode |-> m, consent_ok |-> TRUE,
                                    logged |-> logged,
                                    initialized |-> core_initialized[ProcOf(t)]]]
    /\ pc' = [pc EXCEPT ![t] = "record"]
    /\ ret' = [ret EXCEPT ![t] = None]

\* The id of the entry a call appends: uuid4 gives each entry an id no other
\* entry has; the model takes the number of the line the entry becomes.
FreshId == Len(ledger) + 1

\* record_consent is over for thread t: it returned its entry or raised.
\* Called directly, that is the caller's outcome.  enable_core swallows an
\* exception and goes on to load_core, which records again (mode "load");
\* load_core swallows an exception and goes on to its initialization.
Logged_Whatever(t, outcome) == call[t].logged \cup {call[t].mode}

\* The modes the call has an entry for, once record_consent is over: one
\* more when it returned its entry, the same when it raised.
Logged(t, outcome) ==
    IF outcome = "entry" THEN call[t].logged \cup {call[t].mode} ELSE call[t].logged

Finish(t, outcome) ==
    /\ recorded' = IF outcome = "entry"
                   THEN recorded \cup {[id |-> FreshId, actor |-> call[t].actor,
                                        mode |-> call[t].mode]}
                   ELSE recorded
    /\ IF call[t].fn = "record_consent"
       THEN /\ pc' = [pc EXCEPT ![t] = "idle"]
            /\ ret' = [ret EXCEPT ![t] = outcome]
            /\ call' = [call EXCEPT ![t] = NoCall]
            /\ UNCHANGED nrec
       ELSE IF call[t].fn = "enable_core" /\ call[t].mode = "enable"
       THEN StartRecord(t, "enable_core", call[t].actor, "load", Logged(t, outcome))
       ELSE /\ pc' = [pc EXCEPT ![t] = "check"]
            /\ call' = [call EXCEPT ![t].logged = Logged(t, outcome)]
            /\ UNCHANGED <<ret, nrec>>

LockFree_Always(l) == TRUE
\* A lock can be taken when nobody holds it; a thread that finds it held waits.
LockFree(l) == l = None

StrictFailure_Ignored == FALSE
\* No portalocker and strict locking asked for: _open_locked_for_append raises.
StrictFailure == ~has_portalocker /\ STRICT

\* _open_locked_for_append up to the lock.  With portalocker: the file is
\* opened for append (created if missing) and locked exclusively.  Without:
\* RuntimeError in strict mode, else the in-process lock is taken.
RecordAcquire ==
    \E t \in Threads :
        /\ pc[t] = "record"
        /\ IF has_portalocker
           THEN IF ledger_access = "ro"
                THEN Finish(t, "raised") /\ UNCHANGED <<file_lock, inproc_lock, ledger_exists>>
                ELSE /\ LockFree(file_lock)
                     /\ file_lock' = t
                     /\ ledger_exists' = TRUE
                     /\ pc' = [pc EXCEPT ![t] = "opened"]
                     /\ UNCHANGED <<inproc_lock, call, ret, nrec, recorded>>
           ELSE IF StrictFailure
                THEN Finish(t, "raised") /\ UNCHANGED <<file_lock, inproc_lock, ledger_exists>>
                ELSE /\ LockFree(inproc_lock[ProcOf(t)])
                     /\ inproc_lock' = [inproc_lock EXCEPT ![ProcOf(t)] = t]
                     /\ pc' = [pc EXCEPT ![t] = "locked"]
                     /\ UNCHANGED <<file_lock, ledger_exists, call, ret, nrec, recorded>>
        /\ UNCHANGED <<ledger, configVars, coreVars, readerVars, offLedger>>

\* The fallback's os.open, after the in-process lock was taken: a failure
\* leaves _open_locked_for_append with the lock still held.
RecordOpen ==
    \E t \in Threads :
        /\ pc[t] = "locked"
        /\ IF ledger_access = "ro"
           THEN Finish(t, "raised") /\ UNCHANGED ledger_exists
           ELSE /\ ledger_exists' = TRUE
                /\ pc' = [pc EXCEPT ![t] = "opened"]
                /\ UNCHANGED <<call, ret, nrec, recorded>>
        /\ UNCHANGED <<ledger, file_lock, inproc_lock, configVars, coreVars, readerVars,
                       offLedger>>

AppendLine_Truncating(lines, l) == <<l>>
\* The descriptor is opened in append mode ("ab" / O_APPEND), so os.write
\* puts the line after everything the file holds.
AppendLine(lines, l) == Append(lines, l)

\* os.write(fd, line) on the append-mode descriptor, then unlock() in the
\* finally clause: the line is appended whole or the write raises; either
\* way the lock taken for this call is released.
RecordWrite ==
    \E t \in Threads, io \in {"ok", "EIO"} :
        /\ pc[t] = "opened"
        /\ ledger' = IF io = "ok"
                     THEN AppendLine(ledger, EntryLine(call[t].actor, call[t].mode, FreshId))
                     ELSE ledger
        /\ file_lock' = IF has_portalocker THEN None ELSE file_lock
        /\ inproc_lock' = IF has_portalocker THEN inproc_lock
                          ELSE [inproc_lock EXCEPT ![ProcOf(t)] = None]
        /\ Finish(t, IF io = "ok" THEN "entry" ELSE "raised")
        /\ UNCHANGED <<ledger_exists, configVars, coreVars, readerVars, offLedger>>

\* A direct call of record_consent(actor, mode).
CallRecord(T, who) ==
    \E t \in T, m \in Modes : \E a \in who[t] :
        /\ pc[t] = "idle"
        /\ nrec < MaxRecords
        /\ StartRecord(t, "record_consent", a, m, {})
        /\ Drop
        /\ UNCHANGED <<ledger, ledger_exists, file_lock, inproc_lock, recorded, dest,
                       configVars, coreVars, offLedger>>

\* ------------------------------------------------ load_core / enable_core
\* A thread enters load_core(consent_ok, actor_id).  (nrec counts the
\* record_consent call a consented load_core is going to make.)
CallLoadCore(T, who, oks) ==
    \E t \in T, ok \in oks : \E a \in who[t] :
        /\ pc[t] = "idle"
        /\ ok => nrec < MaxRecords
        /\ nrec' = IF ok THEN nrec + 1 ELSE nrec
        /\ call' = [call EXCEPT ![t] = [fn |-> "load_core", actor |-> a, mode |-> "load",
                                        consent_ok |-> ok, logged |-> {},
                                        initialized |-> core_initialized[ProcOf(t)]]]
        /\ pc' = [pc EXCEPT ![t] = "gate"]
        /\ ret' = [ret EXCEPT ![t] = None]
        /\ Drop
        /\ UNCHANGED <<ledger, ledger_exists, file_lock, inproc_lock, recorded, dest,
                       configVars, coreVars, offLedger>>

Refused_Never(ok) == FALSE

\* if not consent_ok
Refused(ok) == ~ok

\* load_core's first test: without consent it returns False; with consent
\* it goes on to record_consent(actor, "load").
LoadGate ==
    \E t \in Threads :
        /\ pc[t] = "gate"
        /\ IF Refused(call[t].consent_ok)
           THEN /\ pc' = [pc EXCEPT ![t] = "idle"]
                /\ ret' = [ret EXCEPT ![t] = "False"]
                /\ call' = [call EXCEPT ![t] = NoCall]
           ELSE /\ pc' = [pc EXCEPT ![t] = "record"]
                /\ UNCHANGED <<ret, call>>
        /\ UNCHANGED <<ledger, ledger_exists, file_lock, inproc_lock, nrec, recorded,
                       configVars, coreVars, readerVars, offLedger>>

\* enable_core(actor_id): records an "enable" entry, then calls load_core.
CallEnableCore(T, who) ==
    \E t \in T : \E a \in who[t] :
        /\ pc[t] = "idle"
        /\ nrec + 1 < MaxRecords
        /\ StartRecord(t, "enable_core", a, "enable", {})
        /\ Drop
        /\ UNCHANGED <<ledger, ledger_exists, file_lock, inproc_lock, recorded, dest,
                       configVars, coreVars, offLedger>>

\* load_core after its record: the unlocked test of the flag.
LoadCheck ==
    \E t \in Threads :
        /\ pc[t] = "check"
        /\ IF core_initialized[ProcOf(t)]
           THEN /\ pc' = [pc EXCEPT ![t] = "idle"]
                /\ ret' = [ret EXCEPT ![t] = "True"]
                /\ call' = [call EXCEPT ![t] = NoCall]
           ELSE /\ pc' = [pc EXCEPT ![t] = "acquire_loader"]
                /\ UNCHANGED <<ret, call>>
        /\ UNCHANGED <<ledger, ledger_exists, file_lock, inproc_lock, nrec, recorded,
                       configVars, coreVars, readerVars, offLedger>>

\* with _loader_lock: entry.
LoaderAcquire ==
    \E t \in Threads :
        /\ pc[t] = "acquire_loader"
        /\ LockFree(loader_lock[ProcOf(t)])
        /\ loader_lock' = [loader_lock EXCEPT ![ProcOf(t)] = t]
        /\ pc' = [pc EXCEPT ![t] = "loader"]
        /\ UNCHANGED <<ledger, ledger_exists, file_lock, inproc_lock, call, ret, nrec,
                       recorded, core_initialized, configVars, readerVars, offLedger>>

Rechecked_Skipped(p) == FALSE

\* if _core_initialized, under the lock.
Rechecked(p) == core_initialized[p]

\* The body under _loader_lock: the flag is tested again; when it is set
\* the lock is released and load_core returns True.
LoaderBody ==
    \E t \in Threads :
        /\ pc[t] = "loader"
        /\ IF Rechecked(ProcOf(t))
           THEN /\ loader_lock' = [loader_lock EXCEPT ![ProcOf(t)] = None]
                /\ pc' = [pc EXCEPT ![t] = "idle"]
                /\ ret' = [ret EXCEPT ![t] = "True"]
                /\ call' = [call EXCEPT ![t] = NoCall]
           ELSE /\ pc' = [pc EXCEPT ![t] = "init"]
                /\ UNCHANGED <<loader_lock, ret, call>>
        /\ UNCHANGED <<ledger, ledger_exists, file_lock, inproc_lock, nrec, recorded,
                       core_initialized, configVars, readerVars, offLedger>>

\* The initialization under _loader_lock: the flag is set, the lock is
\* released and load_core returns True.
LoaderInit ==
    \E t \in Threads :
        /\ pc[t] = "init"
        /\ core_initialized' = [core_initialized EXCEPT ![ProcOf(t)] = TRUE]
        /\ loader_lock' = [loader_lock EXCEPT ![ProcOf(t)] = None]
        /\ pc' = [pc EXCEPT ![t] = "idle"]
        /\ ret' = [ret EXCEPT ![t] = "True"]
        /\ call' = [call EXCEPT ![t] = NoCall]
        /\ UNCHANGED <<ledger, ledger_exists, file_lock, inproc_lock, nrec, recorded,
                       configVars, readerVars, offLedger>>

\* ------------------------------------------------- query, verify, export
\* is_consent_given's loop over the lines: blank lines and lines that are
\* not JSON are passed over; the first object with that actor and mode
\* answers True.  A JSON value that is not an object has no .get: the
\* AttributeError leaves the loop and the outer handler answers False.
RECURSIVE Scan(_, _, _)
Scan(lines, a, m) ==
    IF lines = <<>> THEN FALSE
    ELSE LET l == Head(lines) IN
         IF l.kind \in {"blank", "garbage"} THEN Scan(Tail(lines), a, m)
         ELSE IF l.kind = "value" THEN FALSE
         ELSE IF l.actor # a \/ l.mode # m THEN Scan(Tail(lines), a, m)
         ELSE TRUE

\* is_consent_given(actor, mode) without since: False when the file does
\* not exist, False when it cannot be opened or read, else the scan.
IsConsentGiven(a, m) ==
    IF ~ledger_exists THEN FALSE
    ELSE IF ledger_access = "wo" THEN FALSE
    ELSE Scan(ledger, a, m)

\* The messages verify_ledger appends for line number i.
LineErrors(l, i) ==
    IF l.kind = "blank" THEN <<>>
    ELSE IF l.kind = "garbage" THEN << [line |-> i, what |-> "invalid JSON"] >>
    ELSE IF l.kind = "value" THEN << [line |-> i, what |-> "not a JSON object"] >>
    ELSE LET Missing(k) == IF k \in l.keys THEN <<>>
                           ELSE << [line |-> i, what |-> "missing field " \o k] >>
         IN Missing("id") \o Missing("ts") \o Missing("actor") \o Missing("mode")
            \o Missing("rationale") \o Missing("schema_version")
            \o (IF "ts" \in l.keys /\ ~l.ts_ok
                THEN << [line |-> i, what |-> "invalid timestamp"] >> ELSE <<>>)

RECURSIVE VerifyErrors_FirstOnly(_, _)
VerifyErrors_FirstOnly(lines, i) ==
    IF i > Len(lines) THEN <<>>
    ELSE IF LineErrors(lines[i], i) # <<>> THEN LineErrors(lines[i], i)
    ELSE VerifyErrors_FirstOnly(lines, i + 1)
\* verify_ledger's loop: every line is looked at, from line i on.
RECURSIVE VerifyErrors(_, _)
VerifyErrors(lines, i) ==
    IF i > Len(lines) THEN <<>>
    ELSE LineErrors(lines[i], i) \o VerifyErrors(lines, i + 1)

\* The caller is between two calls.
Between == \A t \in Threads : pc[t] = "idle"

\* A query: the whole of is_consent_given, on the ledger as it is now.
Query ==
    \E a \in Actors, m \in Modes :
        /\ Between
        /\ reply' = [op |-> "query", actor |-> a, mode |-> m, raised |-> FALSE,
                     result |-> IsConsentGiven(a, m), errors |-> <<>>, read |-> ledger]
        /\ exp' = NoExport
        /\ UNCHANGED <<ledger, ledger_exists, file_lock, inproc_lock, pc, call, ret, nrec,
                       recorded, dest, configVars, coreVars, offLedger>>

\* verify_ledger: (True, []) for a missing file; the open is not guarded,
\* so an unreadable file raises; else (no errors, errors).
Verify ==
    /\ Between
    /\ exp' = NoExport
    /\ reply' = [op |-> "verify", actor |-> None, mode |-> None,
                 raised |-> (ledger_exists /\ ledger_access = "wo"),
                 result |-> IF ~ledger_exists THEN TRUE
                            ELSE IF ledger_access = "wo" THEN FALSE
                            ELSE VerifyErrors(ledger, 1) = <<>>,
                 errors |-> IF ~ledger_exists \/ ledger_access = "wo" THEN <<>>
                            ELSE VerifyErrors(ledger, 1),
                 read |-> ledger]
    /\ UNCHANGED <<ledger, ledger_exists, file_lock, inproc_lock, pc, call, ret, nrec,
                   recorded, dest, configVars, coreVars, offLedger>>

\* export_ledger(dest_path) up to its temporary file: dest_path names
\* nothing yet or an existing directory; the ledger is read whole (empty
\* when missing; an unreadable one raises) and written to dest_path + ".tmp".
ExportRead ==
    \E d \in {DestAbsent, DestDir} :
        /\ Between
        /\ exp.pc \in {"idle", "raised", "returned"}
        /\ reply' = NoReply
        /\ dest' = d
        /\ IF ledger_exists /\ ledger_access = "wo"
           THEN exp' = [pc |-> "raised", content |-> <<>>, tmp |-> FALSE]
           ELSE exp' = [pc |-> "tmp", content |-> IF ledger_exists THEN ledger ELSE <<>>,
                        tmp |-> TRUE]
        /\ UNCHANGED <<ledger, ledger_exists, file_lock, inproc_lock, pc, call, ret, nrec,
                       recorded, configVars, coreVars, offLedger>>

\* os.replace(tmp, dest_path): the destination changes in one step.  When
\* the replace fails (the destination is a directory) the exception is
\* swallowed, the temporary file removed, and export_ledger returns None.
ExportReplace ==
    /\ exp.pc = "tmp"
    /\ dest' = IF dest.kind = "dir" THEN dest ELSE DestFile(exp.content)
    /\ exp' = [exp EXCEPT !.pc = "returned", !.tmp = FALSE]
    /\ UNCHANGED <<ledger, ledger_exists, file_lock, inproc_lock, pc, call, ret, nrec,
                   recorded, reply, configVars, coreVars, offLedger>>

\* Concurrent writers: three threads of two processes call record_consent,
\* load_core and enable_core, in every build and environment.
InitLedger ==
    LedgerStart(BOOLEAN, {<<>>}, {"rw", "ro"}) /\ imported = [p \in Procs |-> TRUE]
\* Each thread acts for one operator.
ActorOf == [t \in Threads |-> IF ProcOf(t) = "p1" THEN {"op1"} ELSE {"op2"}]
RecordCalled == CallRecord(Threads, ActorOf)
LoadCoreCalled == CallLoadCore(Threads, ActorOf, {TRUE})
EnableCoreCalled == CallEnableCore(Threads, ActorOf)
NextLedger ==
    \/ RecordCalled
    \/ LoadCoreCalled
    \/ EnableCoreCalled
    \/ RecordAcquire
    \/ RecordOpen
    \/ RecordWrite
    \/ LoadGate
    \/ LoadCheck
    \/ LoaderAcquire
    \/ LoaderBody
    \/ LoaderInit
SpecLedger == InitLedger /\ [][NextLedger]_vars

\* ------------------------------------------------- the query with since
\* A "ts" value or a since argument: none (None, "", a missing key), a
\* value that is not a string, a string datetime.fromisoformat refuses, or a
\* time with an offset ("...Z", as record_consent writes) or without one.
NoStamp == [kind |-> "none", at |-> 0]
NumberStamp == [kind |-> "number", at |-> 0]
BadStamp == [kind |-> "bad", at |-> 0]
Aware(n) == [kind |-> "aware", at |-> n]
Naive(n) == [kind |-> "naive", at |-> n]
\* An entry with its ts.
StampedLine(a, m, stamp) ==
    [kind |-> "object", keys |-> EntryFields, actor |-> a, mode |-> m,
     ts_ok |-> stamp.kind \in {"aware", "naive"}, id |-> -1, ts |-> stamp]

\* datetime.fromisoformat(t) >= datetime.fromisoformat(s) gives an answer:
\* both parse, and both have an offset or both have none (comparing an
\* aware and a naive datetime raises TypeError).
Compares(t, s) == t.kind \in {"aware", "naive"} /\ t.kind = s.kind

\* except Exception: "On parsing issues, ignore 'since' filter for that line".
OnParsingIssue == "return True"

\* is_consent_given's loop with since: as without it up to the matching
\* entry; then an entry without ts is passed over, a ts that is not a
\* string has no .replace (the outer handler answers False), and the
\* comparison decides, or cannot be made.
RECURSIVE ScanSince(_, _, _, _)
ScanSince(lines, a, m, since) ==
    IF lines = <<>> THEN FALSE
    ELSE LET l == Head(lines) IN
         IF l.kind \in {"blank", "garbage"} THEN ScanSince(Tail(lines), a, m, since)
         ELSE IF l.kind = "value" THEN FALSE
         ELSE IF l.actor # a \/ l.mode # m THEN ScanSince(Tail(lines), a, m, since)
         ELSE IF since.kind = "none" THEN TRUE
         ELSE IF l.ts.kind = "none" THEN ScanSince(Tail(lines), a, m, since)
         ELSE IF l.ts.kind = "number" \/ since.kind = "number" THEN FALSE
         ELSE IF Compares(l.ts, since)
         THEN IF l.ts.at >= since.at THEN TRUE ELSE ScanSince(Tail(lines), a, m, since)
         ELSE IF OnParsingIssue = "return True" THEN TRUE
         ELSE ScanSince(Tail(lines), a, m, since)

\* is_consent_given(actor, mode, since).
IsConsentGivenSince(a, m, since) ==
    IF ~ledger_exists THEN FALSE
    ELSE IF ledger_access = "wo" THEN FALSE
    ELSE ScanSince(ledger, a, m, since)

\* A query with since, on the ledger as it is.
QuerySince(sinces) ==
    \E a \in Actors, m \in Modes, since \in sinces :
        /\ Between
        /\ reply' = [op |-> "query", actor |-> a, mode |-> m, raised |-> FALSE,
                     result |-> IsConsentGivenSince(a, m, since), errors |-> <<>>,
                     read |-> ledger, since |-> since]
        /\ exp' = NoExport
        /\ UNCHANGED <<ledger, ledger_exists, file_lock, inproc_lock, pc, call, ret, nrec,
                       recorded, dest, configVars, coreVars, offLedger>>

\* Ledgers of up to MaxRecords lines, written by record_consent or edited by
\* hand, and the since arguments a caller may pass.
Times == 0..MaxTime
SinceLines ==
    {StampedLine("op1", "load", Aware(n)) : n \in Times}
    \cup {StampedLine("op1", "load", st) : st \in {Naive(0), BadStamp, NoStamp, NumberStamp}}
    \cup {StampedLine("op2", "load", Aware(0)), GarbageLine}
Sinces == {NoStamp, BadStamp, Naive(MaxTime)} \cup {Aware(n) : n \in Times}
InitSince ==
    /\ LedgerStart({FALSE}, UNION {[1..n -> SinceLines] : n \in 0..MaxRecords}, {"rw"})
    /\ imported = [p \in Procs |-> TRUE]
QueriedSince == QuerySince(Sinces)
NextSince == QueriedSince
SpecSince == InitSince /\ [][NextSince]_vars

\* The loader: two threads of one process call load_core, with consent and
\* without, and enable_core, in every build and environment.
LoadCoreAsked == CallLoadCore({"p1t1", "p1t2"}, ActorOf, BOOLEAN)
EnableCoreAsked == CallEnableCore({"p1t1", "p1t2"}, ActorOf)
NextCore ==
    \/ LoadCoreAsked
    \/ EnableCoreAsked
    \/ RecordAcquire
    \/ RecordOpen
    \/ RecordWrite
    \/ LoadGate
    \/ LoadCheck
    \/ LoaderAcquire
    \/ LoaderBody
    \/ LoaderInit
SpecCore == InitLedger /\ [][NextCore]_vars

\* ------------------------------------------------- the package's import
AtImport_TouchesLedger(exists) == TRUE

\* What the import leaves of the ledger's path: consent.py defines
\* functions, reads the environment and creates a lock; _ensure_parent and
\* the opens are inside functions.
AtImport(exists) == exists

\* import modules.autonomous_agent in process p: __init__ imports consent
\* and nothing else; core is imported by the first call that needs it,
\* with _core_initialized = False.
ImportPackage ==
    \E p \in Procs :
        /\ ~imported[p]
        /\ imported' = [imported EXCEPT ![p] = TRUE]
        /\ ledger_exists' = AtImport(ledger_exists)
        /\ UNCHANGED <<has_portalocker, STRICT, ledger, ledger_access, file_lock, inproc_lock,
                       loader_lock, core_initialized, pc, call, ret, nrec, recorded, reply,
                       exp, dest, patchVars, backlogVars, parseVars, cycleVars, raceVars,
                       storeVars>>

\* A program: one thread in each of two processes; each imports the
\* package and then calls its load_core and enable_core.
InitImport ==
    LedgerStart(BOOLEAN, {<<>>}, {"rw"}) /\ imported = [p \in Procs |-> FALSE]
Importers == {t \in {"p1t1", "p2t1"} : imported[ProcOf(t)]}
LoadCoreAfterImport == CallLoadCore(Importers, ActorOf, BOOLEAN)
EnableCoreAfterImport == CallEnableCore(Importers, ActorOf)
NextImport ==
    \/ ImportPackage
    \/ LoadCoreAfterImport
    \/ EnableCoreAfterImport
    \/ RecordAcquire
    \/ RecordOpen
    \/ RecordWrite
    \/ LoadGate
    \/ LoadCheck
    \/ LoaderAcquire
    \/ LoaderBody
    \/ LoaderInit
SpecImport == InitImport /\ [][NextImport]_vars

\* One caller, one call after the other: record_consent, is_consent_given,
\* verify_ledger and export_ledger on a ledger file that may have been
\* edited by hand, in the build without portalocker and without strict mode.
InitAudit ==
    LedgerStart({FALSE}, InitLedgers, {"rw", "wo", "ro"}) /\ imported = [p \in Procs |-> TRUE]
RecordByCaller == CallRecord({"p1t1"}, [t \in Threads |-> Actors])
NextAudit ==
    \/ RecordByCaller
    \/ RecordAcquire
    \/ RecordOpen
    \/ RecordWrite
    \/ Query
    \/ Verify
    \/ ExportRead
    \/ ExportReplace
SpecAudit == InitAudit /\ [][NextAudit]_vars

\* --------------------------------------------------------------- the backlog
\* BacklogItem.to_jsonl at time t: created_at is set when it is not yet,
\* updated_at always.
to_jsonl(item, t) ==
    [item EXCEPT !.created_at = IF @ = None THEN t ELSE @, !.updated_at = t]

\* One assignment last[_id] = obj of latest_by_id: a dict keeps the place of
\* a key it already has and puts a new key last; an empty id is passed over.
Put(last, obj) ==
    IF obj.id = <<>> THEN last
    ELSE IF \E i \in DOMAIN last : last[i].id = obj.id
         THEN [i \in DOMAIN last |-> IF last[i].id = obj.id THEN obj ELSE last[i]]
         ELSE Append(last, obj)

\* latest_by_id: the values of the dict after the first n lines, in the
\* dict's order.
RECURSIVE LatestUpTo(_, _)
LatestUpTo(lines, n) ==
    IF n = 0 THEN <<>> ELSE Put(LatestUpTo(lines, n - 1), lines[n])

latest_by_id(lines) == LatestUpTo(lines, Len(lines))

\* latest_by_id(path).get(task_id): the object, or nothing.
LastOf(lines, id) ==
    SelectSeq(latest_by_id(lines), LAMBDA o : o.id = id)

\* find_open_by_digest: the first object of the dict with that digest and a
\* status other than done / blocked (as a list of at most one object).
IsOpen(o) == o.status \notin Closed

find_open_by_digest(k, lines) ==
    LET hits == SelectSeq(latest_by_id(lines),
                          LAMBDA o : o.meta.digest = DigestOf(k) /\ IsOpen(o))
    IN  IF hits = <<>> THEN <<>> ELSE <<hits[1]>>

\* append_item: one line more at the end of the file.
append_item_Rewrite(item) ==
    backlog' = SelectSeq(backlog, LAMBDA o : o.id # item.id) \o <<to_jsonl(item, now)>>

append_item(item) ==
    backlog' = Append(backlog, to_jsonl(item, now))

\* The file cannot be opened for append: the exception of open() leaves
\* create_or_reopen / update_status, which has written nothing.
OpenFails(fn) ==
    /\ bcall' = [NoBCall EXCEPT !.fn = fn]
    /\ bret' = [NoRet EXCEPT !.raised = TRUE]
    /\ before' = backlog
    /\ UNCHANGED <<backlog, now, offBacklog>>

\* The id create_or_reopen gives the item: the open item's, or a new one
\* made of the digest.
IdFor_NewIdOnReopen(k, lines) ==
    LET existing == find_open_by_digest(k, lines)
    IN  IF existing # <<>> THEN existing[1].id \o <<"again">> ELSE DigestId(DigestOf(k))

IdFor(k, lines) ==
    LET existing == find_open_by_digest(k, lines)
    IN  IF existing # <<>> THEN existing[1].id ELSE DigestId(DigestOf(k))

\* create_or_reopen(kind, title, owner, file, line, rule, source).
create_or_reopen(requests) ==
    /\ Len(backlog) < MaxLines
    /\ \/ \E rq \in requests :
            LET k == rq.issue
            IN  /\ append_item(BacklogItem(IdFor(k, backlog), k.kind, k.title, "todo",
                                           rq.owner, k.file, k.line, k.rule, "flake8", None,
                                           Meta(DigestOf(k), None)))
                /\ bret' = [NoRet EXCEPT !.id = IdFor(k, backlog)]
                /\ bcall' = [NoBCall EXCEPT !.fn = "create_or_reopen", !.issue = k,
                                            !.owner = rq.owner]
                /\ before' = backlog
                /\ UNCHANGED <<now, offBacklog>>
       \/ OpenFails("create_or_reopen")

\* The line update_status appends for an id that has lines: its key fields
\* come from the latest of them.
Inherit(last, id, status, ch) ==
    BacklogItem(id, last.kind, last.title, status, last.owner, last.file, last.line,
                last.rule, last.source, None,
                Meta(last.meta.digest, IF ch = None THEN last.meta.changes ELSE ch))

\* update_status(task_id, status, note=None, changes): a review comes with
\* its changes, as in orchestrator_backlog_hooks.
update_status(ids, statuses) ==
    /\ Len(backlog) < MaxLines
    /\ \/ \E id \in ids, st \in statuses :
            LET last == LastOf(backlog, id)
                ch == IF st = "review" THEN "some" ELSE None
            IN  /\ IF last = <<>>
                   THEN append_item(BacklogItem(id, "misc", <<"update">> \o id, st, None,
                                                None, None, None, None, None,
                                                Meta(NoDigest, IF ch = None THEN "[]" ELSE ch)))
                   ELSE append_item(Inherit(last[1], id, st, ch))
                /\ bret' = NoRet
                /\ bcall' = [NoBCall EXCEPT !.fn = "update_status", !.id = id, !.status = st]
                /\ before' = backlog
                /\ UNCHANGED <<now, offBacklog>>
       \/ OpenFails("update_status")

\* list.sort(key=created_at): a stable sort.
SortedInsert(sorted, o) ==
    LET ahead == {i \in DOMAIN sorted : sorted[i].created_at <= o.created_at}
        n == Cardinality(ahead)
    IN  SubSeq(sorted, 1, n) \o <<o>> \o SubSeq(sorted, n + 1, Len(sorted))

RECURSIVE SortUpTo(_, _)
SortUpTo(pool, n) ==
    IF n = 0 THEN <<>> ELSE SortedInsert(SortUpTo(pool, n - 1), pool[n])

SortByCreatedAt(pool) == SortUpTo(pool, Len(pool))

\* A filter of pick_batch: None and the empty list filter nothing.
NoFilter == [given |-> FALSE, vals |-> {}]
Only(vals) == [given |-> TRUE, vals |-> vals]
Filters(x, filter) == filter.given /\ filter.vals # {} => x \in filter.vals

Pickable_EverTodo(o, lines) == \E i \in DOMAIN lines : lines[i].id = o.id /\ lines[i].status = "todo"

Pickable(o, lines) == o.status = "todo"

Pool(lines, kinds, owners) ==
    SelectSeq(latest_by_id(lines),
              LAMBDA o : Pickable(o, lines) /\ Filters(o.kind, kinds) /\ Filters(o.owner, owners))

Slice(pool, limit) == SubSeq(pool, 1, IF limit < Len(pool) THEN limit ELSE Len(pool))

\* pick_batch(limit, kinds, owners).
pick_batch(limits, filters) ==
    \E limit \in limits, f \in filters :
      LET kinds == f[1]
          owners == f[2]
      IN
        /\ bret' = [NoRet EXCEPT !.batch = Slice(SortByCreatedAt(Pool(backlog, kinds, owners)),
                                                 limit)]
        /\ bcall' = [NoBCall EXCEPT !.fn = "pick_batch", !.limit = limit, !.kinds = kinds,
                                    !.owners = owners]
        /\ before' = backlog
        /\ UNCHANGED <<backlog, now, offBacklog>>

\* A second passes.
BacklogTick ==
    /\ now < MaxTime
    /\ now' = now + 1
    /\ UNCHANGED <<backlog, bcall, bret, before, offBacklog>>

\* One caller works on an empty backlog: the ingest of findings creates or
\* reopens tasks, the orchestrator moves them on.
InitBacklog ==
    LedgerStart({FALSE}, {<<>>}, {"rw"}) /\ imported = [p \in Procs |-> TRUE]
Request(k, o) == [issue |-> k, owner |-> o]
CreateOrReopenCalled ==
    create_or_reopen({Request(IssueLint, "creator"), Request(IssueTest, "auditor"),
                      Request(IssueTestBlank, "creator")})
UpdateStatusCalled ==
    update_status({DigestId(DigestOf(IssueLint)), StrayId}, Statuses \ {"in_progress"})
NextBacklog ==
    \/ CreateOrReopenCalled
    \/ UpdateStatusCalled
    \/ BacklogTick
SpecBacklog == InitBacklog /\ [][NextBacklog]_vars

\* The orchestrator picks its next batch from a backlog of two tasks that
\* are created, reopened, closed and put back.
CreateOrReopenForPick ==
    create_or_reopen({Request(IssueLint, "creator"), Request(IssueTest, "auditor")})
UpdateStatusForPick ==
    update_status({DigestId(DigestOf(IssueLint))}, {"todo", "done"})
PickBatchCalled ==
    pick_batch(0..MaxLimit, {<<NoFilter, NoFilter>>, <<Only({"lint"}), Only({})>>,
                             <<NoFilter, Only({"auditor"})>>})
NextPick ==
    \/ CreateOrReopenForPick
    \/ UpdateStatusForPick
    \/ PickBatchCalled
    \/ BacklogTick
SpecPick == InitBacklog /\ [][NextPick]_vars

\* ------------------------------------------------- the Creator's output
\* A function either returns a list of files or raises.
Files(files) == [raised |-> FALSE, files |-> files]
Raises == [raised |-> TRUE, files |-> <<>>]

\* The first block a pattern matches (as a list of at most one block).
FirstBlock(raw, Matches(_)) ==
    LET hits == SelectSeq(raw, Matches) IN IF hits = <<>> THEN <<>> ELSE <<hits[1]>>

\* str.lower() on the language tags of the model.
Lower(l) == IF l = "Python" THEN "python" ELSE l

\* The loop of _parse_json_manifest over the first n elements of "files":
\* f.get fails on an element that is not an object, .lower() on a language
\* that is not a string; an element without path or whose content is not a
\* string is passed over.
RECURSIVE ManifestUpTo(_, _)
ManifestUpTo(entries, n) ==
    IF n = 0 THEN Files(<<>>)
    ELSE LET sofar == ManifestUpTo(entries, n - 1)
             f == entries[n]
         IN  IF sofar.raised THEN sofar
             ELSE IF ~f.object \/ f.language = NotAString THEN Raises
             ELSE IF f.path # <<>> /\ f.content # NotAString
                  THEN Files(Append(sofar.files,
                                    ParsedFile(f.path,
                                               Content("", NoHeader,
                                                       IF f.content = None THEN "" ELSE f.content),
                                               Lower(IF f.language = None THEN "python"
                                                     ELSE f.language))))
                  ELSE sofar

\* _parse_json_manifest: JSON_FENCE_RE finds the first block tagged json
\* whose body is `{ ... }`; json.loads is guarded, the rest is not:
\* `data.get("files") or []` is then iterated.
_parse_json_manifest(raw) ==
    LET m == FirstBlock(raw, LAMBDA b : b.lang = "json" /\ b.json.braced)
    IN  IF m = <<>> THEN Files(<<>>)
        ELSE IF ~m[1].json.valid THEN Files(<<>>)
        ELSE LET files == m[1].json.files
             IN  CASE files.kind \in {"missing", "null"} -> Files(<<>>)
                   [] files.kind = "number" -> Raises
                   [] files.kind = "list" -> ManifestUpTo(files.entries, Len(files.entries))

\* The language _parse_per_file_fences gives a block: the tag, "text" when
\* there is none, "python" for python / py.
LanguageOf(tag) ==
    LET lang == IF tag = "" THEN "text" ELSE Lower(tag)
    IN  IF lang \in {"", "python", "py"} THEN "python" ELSE lang

\* FILE_HEADER_RE of orchestrator.py accepts file, filepath and path; the
\* one of crew_config.py accepts file only.
HeaderTokens == {"file", "filepath", "path"}
HasHeader(b) == b.header.token \in HeaderTokens

\* _parse_per_file_fences: every block with a header gives a file; a block
\* without one is passed over.
_parse_per_file_fences(raw) ==
    LET headed == SelectSeq(raw, HasHeader)
    IN  [i \in DOMAIN headed |->
            ParsedFile(headed[i].header.path, Content("", NoHeader, headed[i].rest),
                       LanguageOf(headed[i].lang))]

\* _extract_single_fence: the body of the first python block, else the first
\* block with its tag (GENERIC_FENCE_RE takes the tag into the group), else
\* None; as a list of at most one content.
_extract_single_fence(raw) ==
    LET m == FirstBlock(raw, LAMBDA b : b.lang = "python")
    IN  IF m # <<>> THEN <<Content("", m[1].header, m[1].rest)>>
        ELSE IF raw # <<>> THEN <<Content(raw[1].lang, raw[1].header, raw[1].rest)>>
        ELSE <<>>

\* `if single:` an empty string counts as none.
EmptyContent == Content("", NoHeader, BodyNone)
Truthy(single) == single # <<>> /\ single[1] # EmptyContent

\* parse_creator_outputs(raw_text, default_target): what it returns, and by
\* which of its three formats.
Parsed(via, files) == [state |-> "returned", via |-> via, files |-> files]
ParseRaised == [state |-> "raised", via |-> "none", files |-> <<>>]

parse_creator_outputs_FencesFirst(raw, target) ==
    IF raw = <<>> THEN Parsed("none", <<>>)
    ELSE IF _parse_per_file_fences(raw) # <<>>
         THEN Parsed("multi", _parse_per_file_fences(raw))
    ELSE IF _parse_json_manifest(raw).raised THEN ParseRaised
    ELSE IF _parse_json_manifest(raw).files # <<>>
         THEN Parsed("manifest", _parse_json_manifest(raw).files)
    ELSE IF Truthy(_extract_single_fence(raw))
         THEN Parsed("single", <<ParsedFile(target, _extract_single_fence(raw)[1], "python")>>)
    ELSE Parsed("none", <<>>)

parse_creator_outputs(raw, target) ==
    IF raw = <<>> THEN Parsed("none", <<>>)
    ELSE IF _parse_json_manifest(raw).raised THEN ParseRaised
    ELSE IF _parse_json_manifest(raw).files # <<>>
         THEN Parsed("manifest", _parse_json_manifest(raw).files)
    ELSE IF _parse_per_file_fences(raw) # <<>>
         THEN Parsed("multi", _parse_per_file_fences(raw))
    ELSE IF Truthy(_extract_single_fence(raw))
         THEN Parsed("single", <<ParsedFile(target, _extract_single_fence(raw)[1], "python")>>)
    ELSE Parsed("none", <<>>)

\* crew_config._looks_like_multi_file: every block has a `file:` header with
\* a relative path no other block has, and at least MinBodyLen characters
\* after the header.
BlockLooksMulti(raw, i) ==
    /\ raw[i].header.token = "file"
    /\ raw[i].header.path # <<>> /\ ~IsAbs(raw[i].header.path)
    /\ \A j \in 1..(i - 1) : raw[j].header.path # raw[i].header.path
    /\ BodyLen(raw[i].rest) >= MinBodyLen

_looks_like_multi_file(raw) ==
    /\ raw # <<>>
    /\ \A i \in DOMAIN raw : BlockLooksMulti(raw, i)

\* The caller parses the Creator's output.
ParseCreatorOutputs ==
    /\ parsed = NotParsed
    /\ parsed' = parse_creator_outputs(raw_text, default_target)
    /\ UNCHANGED <<raw_text, default_target, looks_multi, cycleVars, offCycle>>

\* retry_creator_if_needed asks whether the output is in the multi-file
\* format.
LooksLikeMultiFile ==
    /\ looks_multi = "none"
    /\ looks_multi' = IF _looks_like_multi_file(raw_text) THEN "True" ELSE "False"
    /\ UNCHANGED <<raw_text, default_target, parsed, cycleVars, offCycle>>

\* Any text of up to MaxBlocks blocks may come from the Creator.
PatchAtRest ==
    /\ fs = [l \in FileLocs |-> IF l = LocEtc THEN "c1" ELSE "absent"]
    /\ backups = {} /\ clock = 0 /\ engine = "idle" /\ phase = "idle"
    /\ changes = <<>> /\ idx = 0 /\ dry_run = FALSE /\ protected_paths = <<>>
    /\ ts = 0 /\ res = EmptyRes /\ fs0 = fs /\ bk0 = {} /\ ncalls = 0 /\ prev = NoPrev
LedgerUnused ==
    /\ has_portalocker = FALSE /\ STRICT = FALSE
    /\ ledger = <<>> /\ ledger_exists = FALSE /\ ledger_access = "rw"
    /\ LedgerAtRest
InitParse ==
    /\ PatchAtRest /\ LedgerUnused /\ BacklogAtRest /\ OthersAtRest
    /\ raw_text \in TextsOf(Blocks)
    /\ default_target \in DefaultTargets
    /\ looks_multi = "none"
    /\ parsed = NotParsed
    /\ cpc = "idle" /\ pending_files = NotParsed /\ auditor = NoOutput
    /\ ethicist = NoOutput /\ others_approve = FALSE /\ outputs = "None"
    /\ written_paths = {} /\ module_rewritten = FALSE
NextParse ==
    \/ ParseCreatorOutputs
    \/ LooksLikeMultiFile
SpecParse == InitParse /\ [][NextParse]_vars

\* ------------------------------------------------- the orchestration cycle
\* main.py calls crew_config.run_crew, which runs the agents one after the
\* other and decides on the write, then main votes again and calls
\* rewrite_module.  What is written to memory and to the cycle history is
\* not a proposed file and is left out.

\* core/voting.decide_approval on a text without any of the keywords, as
\* "written" and "skipped" are: neither positive nor negative, so False.
ApprovesByWords_StatusCountsAsYes(status) == TRUE

ApprovesByWords(status) == FALSE

\* evaluate_votes(responses): every value of the dict must approve by its
\* words, the _rewrite_status that run_crew put there included.
evaluate_votes(status) ==
    /\ others_approve /\ auditor.approves /\ ethicist.approves
    /\ ApprovesByWords(status)

\* core/extract_code.extract_code_block: the body of the first fence that
\* has no tag or the tag python, stripped; a first fence with another tag
\* makes the pattern match from its closing fence on, which gives what
\* stands between the blocks: nothing.
extract_code_block(raw) ==
    IF raw # <<>> /\ raw[1].lang \in {"", "python"}
    THEN Content("", raw[1].header, raw[1].rest)
    ELSE EmptyContent

\* write_files_bundle(pending_files, root_dir="."): pending_files is the
\* list parse_creator_outputs returned, and write_files_bundle raises
\* TypeError for anything but a dict, before it writes: no path is written.
BundleWritten(files) == {}

\* The Creator has answered (after the retry of retry_creator_if_needed,
\* which hands on its second answer whether it is well-formed or not);
\* Architect and Revolutionary have answered before.
CreatorAnswers(blocks) ==
    /\ cpc = "creator"
    /\ raw_text' \in TextsOf(blocks)
    /\ others_approve' \in BOOLEAN
    /\ cpc' = "extract"
    /\ UNCHANGED <<default_target, looks_multi, parsed, pending_files, auditor, ethicist,
                   outputs, written_paths, module_rewritten, offCycle>>

\* run_crew, lines 531-536: pending_files = parse_creator_outputs(creator_raw)
\* with the default target of its signature; a non-empty list has no
\* .keys(), so the cycle ends in run_crew's handler, which returns None; so
\* does an exception of the parser.
ExtractBundle ==
    /\ cpc = "extract"
    /\ pending_files' = parse_creator_outputs(raw_text, <<"modules", "autonomous_agent.py">>)
    /\ cpc' = IF pending_files'.state = "raised" \/ pending_files'.files # <<>>
              THEN "failed" ELSE "auditor"
    /\ UNCHANGED <<parseVars, auditor, ethicist, others_approve, outputs, written_paths,
                   module_rewritten, offCycle>>

\* The Auditor has answered: parse_auditor_decision gives GO, NO-GO or
\* UNKNOWN; its words approve or not.
AuditorAnswers ==
    /\ cpc = "auditor"
    /\ \E d \in {"GO", "NO-GO", "UNKNOWN"}, w \in BOOLEAN :
          auditor' = [decision |-> d, approves |-> w]
    /\ cpc' = "ethicist"
    /\ UNCHANGED <<parseVars, pending_files, ethicist, others_approve, outputs,
                   written_paths, module_rewritten, offCycle>>

\* The Ethicist has answered: parse_ethicist_vote gives APPROVE, REJECT or
\* UNKNOWN; "VOTE: REJECT" holds a negative keyword of decide_approval.
EthicistAnswers ==
    /\ cpc = "ethicist"
    /\ \E d \in {"APPROVE", "REJECT", "UNKNOWN"}, w \in BOOLEAN :
          /\ d = "REJECT" => ~w
          /\ ethicist' = [decision |-> d, approves |-> w]
    /\ cpc' = "decision"
    /\ UNCHANGED <<parseVars, pending_files, auditor, others_approve, outputs,
                   written_paths, module_rewritten, offCycle>>

\* run_crew, lines 591-617: the final decision and the approved write.
FinalDecision ==
    auditor.decision = "GO" /\ ethicist.decision = "APPROVE"

DecideAndWrite ==
    /\ cpc = "decision"
    /\ IF FinalDecision /\ pending_files.files # <<>>
       THEN /\ written_paths' = written_paths \cup BundleWritten(pending_files.files)
            /\ outputs' = IF BundleWritten(pending_files.files) # {} THEN "written"
                          ELSE "skipped"
       ELSE /\ written_paths' = written_paths
            /\ outputs' = "skipped"
    /\ cpc' = "returned"
    /\ UNCHANGED <<parseVars, pending_files, auditor, ethicist, others_approve,
                   module_rewritten, offCycle>>

\* main, lines 9-12: run_crew returned None.
MainExits ==
    /\ cpc = "failed"
    /\ cpc' = "exited"
    /\ UNCHANGED <<parseVars, pending_files, auditor, ethicist, others_approve, outputs,
                   written_paths, module_rewritten, offCycle>>

\* main, lines 14-44, and rewrite_module: the module is rewritten when
\* evaluate_votes approves and extract_code_block found code.
MainRewrites ==
    /\ cpc = "returned"
    /\ module_rewritten' =
          (extract_code_block(raw_text) # EmptyContent /\ evaluate_votes(outputs))
    /\ cpc' = "done"
    /\ UNCHANGED <<parseVars, pending_files, auditor, ethicist, others_approve, outputs,
                   written_paths, offCycle>>

InitCycle ==
    /\ PatchAtRest /\ LedgerUnused /\ BacklogAtRest /\ OthersAtRest
    /\ raw_text = <<>>
    /\ default_target = <<"modules", "autonomous_agent.py">>
    /\ looks_multi = "none"
    /\ parsed = NotParsed
    /\ cpc = "creator" /\ pending_files = NotParsed /\ auditor = NoOutput
    /\ ethicist = NoOutput /\ others_approve = FALSE /\ outputs = "None"
    /\ written_paths = {} /\ module_rewritten = FALSE
CreatorAnswersInCycle ==
    CreatorAnswers({PyFileA, PyBare, PyEmpty, TextBare, JsonManifest, JsonNonObject})
NextCycle ==
    \/ CreatorAnswersInCycle
    \/ ExtractBundle
    \/ AuditorAnswers
    \/ EthicistAnswers
    \/ DecideAndWrite
    \/ MainExits
    \/ MainRewrites
SpecCycle == InitCycle /\ [][NextCycle]_vars

\* ------------------------------------------- two create_or_reopen calls
\* Two callers of create_or_reopen on one backlog file.  A call is two steps
\* on the file: find_open_by_digest reads it whole, append_item adds one line
\* with one write on a file opened for append.
\* `existing["id"] if existing else f"T-{digest}"`.
ChosenId_Suffixed(existing, k) ==
    IF existing # <<>> THEN existing[1].id \o <<"again">> ELSE DigestId(DigestOf(k))

ChosenId(existing, k) ==
    IF existing # <<>> THEN existing[1].id ELSE DigestId(DigestOf(k))

\* The call of worker w up to the return of find_open_by_digest.
FindOpen(w) ==
    /\ creating[w].pc = "idle"
    /\ \E k \in Issues, o \in Owners :
          creating' = [creating EXCEPT ![w] =
                          [NoCreate EXCEPT !.pc = "found", !.issue = k, !.owner = o,
                                           !.found = find_open_by_digest(k, backlog)]]
    /\ UNCHANGED <<backlogVars, patchVars, ledgerVars, parseVars, cycleVars, importVars,
                   storeVars>>

\* The rest of the call: the item is built, its line appended, the id returned.
AppendFound(w) ==
    /\ creating[w].pc = "found"
    /\ LET c == creating[w]
           k == c.issue
           _id == ChosenId(c.found, k)
       IN  /\ append_item(BacklogItem(_id, k.kind, k.title, "todo", c.owner, k.file,
                                      k.line, k.rule, "flake8", None,
                                      Meta(DigestOf(k), None)))
           /\ creating' = [creating EXCEPT ![w] = [c EXCEPT !.pc = "returned", !.id = _id]]
    /\ UNCHANGED <<now, bcall, bret, before, patchVars, ledgerVars, parseVars, cycleVars,
                   importVars, storeVars>>

\* The files the two calls find: none, or the lines earlier calls of
\* create_or_reopen and update_status wrote for one issue.
CreatedLine(k) ==
    to_jsonl(BacklogItem(DigestId(DigestOf(k)), k.kind, k.title, "todo", "creator", k.file,
                         k.line, k.rule, "flake8", None, Meta(DigestOf(k), None)), 0)
MovedLine(k, status) ==
    to_jsonl(Inherit(CreatedLine(k), DigestId(DigestOf(k)), status, None), 0)
RaceFiles ==
    {<<>>} \cup {<<CreatedLine(k)>> : k \in {IssueLint, IssueTest}}
           \cup {<<CreatedLine(k), MovedLine(k, s)>> : k \in {IssueLint, IssueTest},
                                                s \in {"in_progress", "done"}}
InitRace ==
    /\ PatchAtRest /\ LedgerUnused /\ CycleAtRest
    /\ imported = [p \in Procs |-> TRUE]
    /\ creating = [w \in Workers |-> NoCreate]
    /\ memory = <<>>
    /\ adding = [w \in Workers |-> NoAdd]
    /\ backlog \in RaceFiles
    /\ now = 0 /\ bcall = NoBCall /\ bret = NoRet /\ before = <<>>
NextRace == \E w \in Workers : FindOpen(w) \/ AppendFound(w)
SpecRace == InitRace /\ [][NextRace]_vars

\* ------------------------------------------------------ the memory store
\* MemoryStore keeps its events in one JSON file; `memory` is the list under
\* "events".  An event as a caller passes it: a key it leaves out is None.
Event(title, note, tag, level, cycle_id, stamp) ==
    [title |-> title, note |-> note, tag |-> tag, level |-> level, cycle_id |-> cycle_id,
     ts |-> stamp]
\* `event or {}`: no event at all, or an empty one, is an event with no keys.
EventEmpty == Event(None, None, None, None, None, None)
EventPlan == Event("plan", "draft", "architect", "info", "c1", "t1")
EventError == Event(None, "tests failed", "auditor", "error", None, None)
EventInputs == {EventPlan, EventError, EventEmpty}

\* e.setdefault(key, default): the default where the key is missing.
SetDefault(v, default) == IF v = None THEN default ELSE v

\* dict(event or {}) with its six setdefault calls; the default of ts is the
\* time of the call.
WithDefaults(e) ==
    Event(SetDefault(e.title, "event"), SetDefault(e.note, ""), SetDefault(e.tag, "general"),
          SetDefault(e.level, "info"), SetDefault(e.cycle_id, ""), SetDefault(e.ts, "utcnow"))

\* add_event up to the return of _load_all, which reads the file with _lock
\* held and gives the lock back.
LoadAll(w) ==
    /\ adding[w].pc = "idle"
    /\ \E ev \in EventInputs :
          adding' = [adding EXCEPT ![w] = [pc |-> "loaded", event |-> ev, data |-> memory]]
    /\ UNCHANGED <<memory, patchVars, ledgerVars, backlogVars, parseVars, cycleVars,
                   importVars, raceVars>>

\* The rest of add_event: the event is appended to the list that was read,
\* and _save_all, with _lock held again, puts that list in the file's place.
SaveAll(w) == memory' = Append(adding[w].data, WithDefaults(adding[w].event))

AddEventReturns(w) ==
    /\ adding[w].pc = "loaded"
    /\ SaveAll(w)
    /\ adding' = [adding EXCEPT ![w].pc = "returned"]
    /\ UNCHANGED <<patchVars, ledgerVars, backlogVars, parseVars, cycleVars, importVars,
                   raceVars>>

\* The stores the two threads share: no event yet, or the events of earlier
\* add_event calls.
StoredEvents ==
    {<<>>, <<WithDefaults(EventPlan)>>, <<WithDefaults(EventPlan), WithDefaults(EventEmpty)>>,
     <<WithDefaults(EventError), WithDefaults(EventPlan)>>}
InitStore ==
    /\ PatchAtRest /\ LedgerUnused /\ BacklogAtRest /\ CycleAtRest
    /\ imported = [p \in Procs |-> TRUE]
    /\ creating = [w \in Workers |-> NoCreate]
    /\ adding = [w \in Workers |-> NoAdd]
    /\ memory \in StoredEvents
NextStore == \E w \in Workers : LoadAll(w) \/ AddEventReturns(w)
SpecStore == InitStore /\ [][NextStore]_vars

\* ------------------------------------------------------------------ claims
\* Number of entries of a result list that belong to change i.
CountIn(list, i) == Cardinality({k \in 1..Len(list) : list[k].i = i})
Indices == 1..Len(changes)
InListOrder(list) == \A k \in 1..(Len(list) - 1) : list[k].i <= list[k + 1].i

\* A request the schema rejects, in the words of the patch-set contract.
InvalidAsSubmitted(chs) ==
    \/ chs = <<>>
    \/ \E i \in 1..Len(chs) :
          \/ chs[i].op \notin {"upsert", "update", "delete"}
          \/ (chs[i].path # <<>> /\ chs[i].path[1] = "/")
          \/ (\E k \in 1..Len(chs[i].path) : chs[i].path[k] = "..")
          \/ chs[i].path = <<>>

\* Change i's target is a protected path of the working tree or lies under one.
CoveredByProtected(i) ==
    \E k \in 1..Len(protected_paths) :
        /\ IsUnder(Resolve(Root, protected_paths[k]), Root)
        /\ IsUnder(Target(i), Resolve(Root, protected_paths[k]))

\* C1 (as claimed): when apply_patch_set returns, every requested change has
\* exactly one entry in applied, skipped and errors taken together.
C1_EachChangeRecordedOnce ==
    (engine = "apply_patch_set" /\ phase = "returned") =>
        \A i \in Indices :
            CountIn(res.applied, i) + CountIn(res.skipped, i) + CountIn(res.errors, i) = 1

\* C2 (as claimed): a request whose every path has a ".." segment never
\* creates, changes or deletes a file, whichever engine takes it.
C2_TraversalNeverMutates ==
    (changes # <<>> /\ \A i \in Indices : HasDotDot(changes[i].path)) =>
        (fs = fs0 /\ backups = bk0)

\* C3 (as claimed): no engine creates or changes a file outside the root, no
\* backup is made outside it, and an absolute input path is never written.
C3_NothingOutsideRoot ==
    /\ \A l \in FileLocs : ~IsUnder(l, Root) => fs[l] = fs0[l]
    /\ \A b \in backups : IsUnder(b.target, Root)
    /\ \A k \in 1..Len(res.written) : ~IsAbs(res.written[k].path)
    /\ \A k \in 1..Len(res.applied) : ~IsAbs(res.applied[k].path)

\* A request that is one upsert to a path that resolves outside the root.
OneEscapingUpsert ==
    /\ engine = "apply_patch_set"
    /\ Len(changes) = 1
    /\ changes[1].op = "upsert"
    /\ changes[1].content # None
    /\ ~IsUnder(Target(1), Root)

\* C4 (as claimed): such a call returns a result with no applied entry and
\* exactly one errors entry, for that path, and the filesystem is unchanged.
C4_EscapeReturnsOneError ==
    (OneEscapingUpsert /\ phase \in {"returned", "raised"}) =>
        /\ phase = "returned"
        /\ res.applied = <<>>
        /\ Len(res.errors) = 1
        /\ res.errors[1].path = changes[1].path
        /\ fs = fs0

\* C4 (amended): one upsert to a path that leaves the root through a ".."
\* segment, or that is absolute, is rejected by the schema gate: the call
\* raises, no result entry of any kind exists, and no file or backup changed.
C4_EscapeRaisesAtGate ==
    (OneEscapingUpsert /\ (HasDotDot(changes[1].path) \/ IsAbs(changes[1].path))) =>
        /\ phase = "raised"
        /\ res = EmptyRes
        /\ fs = fs0
        /\ backups = bk0

C4_Witness ==
    /\ OneEscapingUpsert
    /\ changes[1].path = PathUpOut
    /\ phase = "raised"
    /\ fs = fs0

\* C5: once the loop of apply_patch_set runs, no failing change ends the
\* call: the only raise is the gate's, before the loop; every change before
\* the loop position has an entry, no later one has; a change that took a
\* failing branch has its entry in skipped or errors and none in applied;
\* entries are in list order; and the call returns only after the last change.
C5_FailuresIsolated ==
    engine = "apply_patch_set" =>
        /\ phase = "raised" => (idx = 0 /\ res = EmptyRes)
        /\ phase \in {"loop", "opened", "returned"} =>
              /\ \A i \in Indices :
                    (i < idx) <=> (CountIn(res.applied, i) + CountIn(res.skipped, i)
                                     + CountIn(res.errors, i) >= 1)
              /\ \A i \in Indices :
                    (i < idx /\ Branch(changes[i], protected_paths) \notin {"delete", "write"})
                        => (CountIn(res.applied, i) = 0
                            /\ CountIn(res.skipped, i) + CountIn(res.errors, i) >= 1)
              /\ InListOrder(res.applied)
              /\ InListOrder(res.skipped)
              /\ InListOrder(res.errors)
        /\ phase = "returned" => idx = Len(changes) + 1

C5_Witness ==
    /\ engine = "apply_patch_set" /\ phase = "returned"
    /\ Len(changes) = 2
    /\ CountIn(res.errors, 1) = 1
    /\ \E k \in 1..Len(res.applied) : res.applied[k].i = 2 /\ res.applied[k].tag = "written"

\* C6: a request with an invalid change (bad op, absolute path, ".."
\* segment, empty path) or with no change is rejected as a whole: the call
\* raises before its loop, with no result entry, no file and no backup changed.
C6_GateBeforeAnyWrite ==
    (engine = "apply_patch_set" /\ phase # "crashed" /\ InvalidAsSubmitted(changes)) =>
        /\ phase = "raised"
        /\ idx = 0
        /\ res = EmptyRes
        /\ fs = fs0
        /\ backups = bk0

C6_Witness ==
    /\ engine = "apply_patch_set" /\ phase = "raised"
    /\ Len(changes) = 2
    /\ ~InvalidAsSubmitted(<<changes[1]>>)
    /\ changes[1].op = "upsert" /\ changes[1].content # None
    /\ InvalidAsSubmitted(<<changes[2]>>)
    /\ fs = fs0

\* C7 (as claimed): no target is ever visible truncated or half written.
C7_TargetNeverPartial == \A l \in FileLocs : fs[l] # "partial"

\* The call that just returned wrote the same single upsert path as the
\* call before it, through the same engine.
SameUpsertAgain ==
    /\ phase = "returned"
    /\ Len(changes) = 1 /\ changes[1].op = "upsert"
    /\ Wrote(res)
    /\ prev.engine = engine /\ prev.wrote
    /\ Len(prev.changes) = 1 /\ prev.changes[1].op = "upsert"
    /\ prev.changes[1].path = changes[1].path

\* C8 (as claimed): after the second application the target holds the
\* second payload and there is exactly one more backup file than before it.
C8_SecondUpsertOneMoreBackup ==
    SameUpsertAgain =>
        /\ fs[Target(1)] = changes[1].content
        /\ Cardinality(backups) = Cardinality(bk0) + 1

\* C9 (as claimed): when apply_patch_set returns, a change whose target is
\* covered by a protected path has left its target as it was, has no applied
\* entry and has a skipped entry with the protected reason.
C9_ProtectedTargetUntouched ==
    (engine = "apply_patch_set" /\ phase = "returned") =>
        \A i \in Indices :
            CoveredByProtected(i) =>
                /\ fs[Target(i)] = fs0[Target(i)]
                /\ CountIn(res.applied, i) = 0
                /\ \E k \in 1..Len(res.skipped) :
                      res.skipped[k].i = i /\ res.skipped[k].tag = "protected_path"

\* A well-formed request of deletes only, whose targets did not exist when
\* the call started.
DeletesOfAbsent ==
    /\ engine = "apply_patch_set"
    /\ ~InvalidAsSubmitted(changes)
    /\ \A i \in Indices : changes[i].op = "delete" /\ ~Exists(fs0, Target(i))

ProtectionClear ==
    /\ \A i \in Indices : ~CoveredByProtected(i)
    /\ \A k \in 1..Len(protected_paths) : IsUnder(Resolve(Root, protected_paths[k]), Root)

PassesChecks(i) ==
    /\ SafeTargetOK(Target(i))
    /\ ProtectedScan(Target(i), protected_paths) = "clear"

\* Change i is an upsert/update that carries a diff and no content.
DiffOnly(i) ==
    changes[i].op \in {"upsert", "update"} /\ changes[i].content = None /\ changes[i].diff # None

\* Change i is an upsert/update that carries both a content and a diff.
ContentAndDiff(i) ==
    changes[i].op \in {"upsert", "update"} /\ changes[i].content # None /\ changes[i].diff # None

\* C11 (as claimed): when apply_patch_set returns, every upsert/update with a
\* diff and no content has an errors entry, and every upsert/update with both
\* content and diff has none saying that diffs are unsupported.
C11_DiffOnlyAlwaysInErrors ==
    (engine = "apply_patch_set" /\ phase = "returned") =>
        \A i \in Indices :
            /\ DiffOnly(i) => CountIn(res.errors, i) >= 1
            /\ ContentAndDiff(i) =>
                  \A k \in 1..Len(res.errors) :
                      res.errors[k].i = i =>
                          res.errors[k].tag # "diff-based updates are not supported yet"

\* What C11 says of the entries present once the loop is past change i.
C11_Entries ==
    (engine = "apply_patch_set" /\ phase \in {"loop", "opened", "returned"}) =>
        \A i \in Indices :
            (i < idx /\ PassesChecks(i)) =>
                /\ DiffOnly(i) =>
                      /\ CountIn(res.errors, i) = 1
                      /\ CountIn(res.applied, i) = 0 /\ CountIn(res.skipped, i) = 0
                      /\ \E k \in 1..Len(res.errors) :
                            /\ res.errors[k].i = i
                            /\ res.errors[k].tag = "diff-based updates are not supported yet"
                /\ ContentAndDiff(i) =>
                      /\ \A k \in 1..Len(res.errors) :
                            res.errors[k].i = i =>
                                res.errors[k].tag # "diff-based updates are not supported yet"
                      /\ \A k \in 1..Len(res.applied) :
                            res.applied[k].i = i => res.applied[k].tag \in {"written", "dry_run"}

\* What C11 says of the steps: the step that handles a diff-only change
\* changes no file and no backup; the step that records a change carrying
\* content and diff as written has put that content in its target.
C11_Steps ==
    (engine = "apply_patch_set" /\ phase \in {"loop", "opened"} /\ idx' = idx + 1) =>
        /\ DiffOnly(idx) => (fs' = fs /\ backups' = backups)
        /\ (ContentAndDiff(idx) /\ CountIn(res'.applied, idx) = 1 /\ ~dry_run) =>
              fs'[Target(idx)] = changes[idx].content

\* C11 (amended): a diff-only upsert/update whose target passes the path
\* guard and the protected-path scan gets exactly one errors entry (diffs
\* unsupported), no applied and no skipped entry, and its step changes nothing;
\* one with content and diff is never refused as a diff and, when applied,
\* is applied from its content.
C11_DiffRefusedContentFirst == []C11_Entries /\ [][C11_Steps]_vars

C11_Witness ==
    /\ engine = "apply_patch_set" /\ phase = "returned" /\ ~dry_run
    /\ Len(changes) = 2
    /\ DiffOnly(1) /\ PassesChecks(1) /\ CountIn(res.errors, 1) = 1
    /\ ContentAndDiff(2) /\ CountIn(res.applied, 2) = 1
    /\ fs[Target(2)] = changes[2].content
    /\ fs[Target(1)] = fs0[Target(1)]

\* A change that dry-run reports: a delete or an upsert/update with content.
DryRunReported(i) ==
    \/ changes[i].op = "delete"
    \/ (changes[i].op \in {"upsert", "update"} /\ changes[i].content # None)

\* C12: in a dry run no file and no backup is created, changed or removed,
\* whatever the changes are, and every delete or content-bearing
\* upsert/update that passed the path guard and the protected-path scan has
\* exactly one applied entry, marked dry-run, and no other entry.
C12_DryRunMutatesNothing ==
    (engine = "apply_patch_set" /\ dry_run) =>
        /\ fs = fs0
        /\ backups = bk0
        /\ phase \in {"loop", "returned"} =>
              \A i \in Indices :
                  (i < idx /\ PassesChecks(i) /\ DryRunReported(i)) =>
                      /\ CountIn(res.applied, i) = 1
                      /\ CountIn(res.skipped, i) = 0 /\ CountIn(res.errors, i) = 0
                      /\ \A k \in 1..Len(res.applied) :
                            res.applied[k].i = i => res.applied[k].tag = "dry_run"

C12_Witness ==
    /\ engine = "apply_patch_set" /\ dry_run /\ phase = "returned"
    /\ Len(changes) = 2
    /\ changes[1].op = "delete" /\ Exists(fs0, Target(1))
    /\ changes[2].op = "upsert" /\ changes[2].content # None
    /\ Len(res.applied) = 2
    /\ fs = fs0

\* ------------------------------------------------------ claims: the ledger
IsPrefix(a, b) == Len(a) <= Len(b) /\ SubSeq(b, 1, Len(a)) = a

\* C13: no step of record, query, verify or export edits, reorders or
\* removes a line of the ledger: the lines before a step are a prefix of the
\* lines after it, and the file, once there, stays.
C13_AppendOnly ==
    [][IsPrefix(ledger, ledger') /\ (ledger_exists => ledger_exists')]_vars

C13_Witness ==
    /\ Len(ledger) = 3
    /\ ledger[1] = ValueLine
    /\ ledger[3].id = 3
    /\ exp.pc = "returned"
    /\ dest = DestFile(ledger)

\* Threads between the acquisition of the ledger lock and its release.
Writing == {t \in Threads : pc[t] \in {"locked", "opened"}}

\* Every entry a record call returned is exactly one line of the ledger.
RecordedOnce ==
    \A r \in recorded :
        Cardinality({i \in 1..Len(ledger) :
                        ledger[i] = [kind |-> "object", keys |-> EntryFields, actor |-> r.actor,
                                     mode |-> r.mode, ts_ok |-> TRUE, id |-> r.id]}) = 1

\* C14 (as claimed): in every build at most one writer, of any thread and
\* process, is between lock acquisition and release, and every recorded
\* entry is exactly one whole line.
C14_WritersExcludeEachOther == Cardinality(Writing) <= 1 /\ RecordedOnce

\* C14 (amended): with portalocker at most one writer of any process is
\* between acquisition and release; without it (the fallback) at most one
\* writer of each process is, while writers of different processes may be
\* there together; in both, every recorded entry is exactly one whole line.
C14_ExclusionWhereLocked ==
    /\ has_portalocker => Cardinality(Writing) <= 1
    /\ \A p \in Procs : Cardinality({t \in Writing : ProcOf(t) = p}) <= 1
    /\ RecordedOnce

C14_Witness ==
    /\ has_portalocker
    /\ pc["p1t1"] = "opened"
    /\ pc["p2t1"] = "record"
    /\ file_lock = "p1t1"

\* A line that is an entry of actor a and mode m.
IsEntryOf(l, a, m) == l.kind = "object" /\ l.actor = a /\ l.mode = m

\* C15 (as claimed): a query without since, of a ledger file that can be
\* read, answers True exactly when the ledger holds an entry with that actor
\* and that mode.
C15_QueryIffEntryPresent ==
    (reply.op = "query" /\ ledger_access # "wo") =>
        (reply.result <=>
            \E i \in 1..Len(reply.read) : IsEntryOf(reply.read[i], reply.actor, reply.mode))

\* The lines record calls append, and the defects the claim names.
FromRecordOnly(lines) ==
    \A i \in 1..Len(lines) : lines[i].kind = "object" /\ lines[i].id = i
InvalidJson(l) == l.kind = "garbage"
LacksAnyEntryField(l) ==
    l.kind = "object"
    /\ ~({"id", "ts", "actor", "mode", "rationale", "pid", "thread", "schema_version"}
            \subseteq l.keys)
LacksCheckedField(l) ==
    l.kind = "object"
    /\ ~({"id", "ts", "actor", "mode", "rationale", "schema_version"} \subseteq l.keys)
Flagged(i) == \E k \in 1..Len(reply.errors) : reply.errors[k].line = i

\* C16 (as claimed): verify answers (True, []) for a ledger written by
\* record alone, and (False, errors) with an error for every line that is
\* not JSON or lacks a field of the ledger entry.
C16_VerifyFlagsEveryDefect ==
    (reply.op = "verify" /\ ~reply.raised) =>
        /\ FromRecordOnly(reply.read) => (reply.result = TRUE /\ reply.errors = <<>>)
        /\ \A i \in 1..Len(reply.read) :
              (InvalidJson(reply.read[i]) \/ LacksAnyEntryField(reply.read[i])) =>
                  (reply.result = FALSE /\ Flagged(i))

\* C16 (amended): the fields whose absence verify reports are id, ts, actor,
\* mode, rationale and schema_version (a line without pid or thread is
\* accepted); with that, every line that is not JSON or lacks one of them
\* has an error of its own, whatever precedes it, the answer is False, and
\* a ledger written by record alone gets (True, []).
C16_VerifyFlagsEveryCheckedDefect ==
    (reply.op = "verify" /\ ~reply.raised) =>
        /\ FromRecordOnly(reply.read) => (reply.result = TRUE /\ reply.errors = <<>>)
        /\ \A i \in 1..Len(reply.read) :
              (InvalidJson(reply.read[i]) \/ LacksCheckedField(reply.read[i])) =>
                  (reply.result = FALSE /\ Flagged(i))
        /\ reply.result = (reply.errors = <<>>)

C16_Witness ==
    /\ reply.op = "verify" /\ reply.result = FALSE
    /\ Len(reply.read) = 4
    /\ InvalidJson(reply.read[1]) /\ Flagged(1)
    /\ LacksCheckedField(reply.read[3]) /\ Flagged(3)
    /\ ~Flagged(4)

\* Thread t waits for an in-process lock that nobody is going to release:
\* its holder is not between acquisition and release any more.
WaitsForLeakedLock(t) ==
    /\ pc[t] = "record"
    /\ ~has_portalocker /\ ~STRICT
    /\ inproc_lock[ProcOf(t)] # None
    /\ pc[inproc_lock[ProcOf(t)]] \notin {"locked", "opened"}

\* C17 (as claimed): a failed ledger write never holds up load_core or
\* enable_core: no such call waits for ever, and a call that returned True
\* left the core initialized.
C17_LedgerFailureNeverBlocksCore ==
    \A t \in Threads :
        /\ call[t].fn \in {"load_core", "enable_core"} => ~WaitsForLeakedLock(t)
        /\ ret[t] = "True" => core_initialized[ProcOf(t)]

\* C18: without portalocker and in strict mode no record call gets past
\* _open_locked_for_append: no entry is returned or appended, the ledger
\* file is not created, and no lock is held, during or after the call.
\* Without portalocker and not in strict mode a writer holds the in-process
\* lock of its process, and what a call returned is in the ledger.
C18_StrictFailsFallbackAppends ==
    /\ (~has_portalocker /\ STRICT) =>
          /\ ledger = <<>> /\ ~ledger_exists
          /\ recorded = {}
          /\ file_lock = None /\ \A p \in Procs : inproc_lock[p] = None
          /\ \A t \in Threads : pc[t] \notin {"locked", "opened"} /\ ret[t] # "entry"
    /\ (~has_portalocker /\ ~STRICT) =>
          /\ \A t \in Writing : inproc_lock[ProcOf(t)] = t
          /\ RecordedOnce
          /\ \A t \in Threads : ret[t] = "entry" => recorded # {}

C18_Witness ==
    /\ ~has_portalocker /\ STRICT
    /\ ret["p1t1"] = "raised" /\ ret["p2t1"] = "raised"
    /\ nrec = 2
    /\ ledger = <<>>

\* C19 (as claimed): a query or a verify of a ledger that exists and cannot
\* be read fails visibly: it gives no answer.
C19_ReadFailuresSurfaced ==
    (reply.op \in {"query", "verify"} /\ ledger_exists /\ ledger_access = "wo") =>
        reply.raised

\* C20 (as claimed): when export returns, the destination holds the lines
\* read from the ledger; the destination never holds anything else than a
\* whole copy; the ledger is as it was read.
C20_ExportCopiesWhole ==
    /\ exp.pc = "returned" => (dest = DestFile(exp.content) /\ exp.content = ledger)
    /\ dest.kind = "file" => (exp.pc = "returned" /\ dest.lines = exp.content)

\* ----------------------------------------------------- claims: the backlog
\* A create_or_reopen / update_status call that returned.
Created == bcall.fn = "create_or_reopen" /\ ~bret.raised
Updated == bcall.fn = "update_status" /\ ~bret.raised
NewLine == backlog[Len(backlog)]
\* The ids that have lines in a file, and the last line of an id.
IdsIn(lines) == {lines[i].id : i \in DOMAIN lines}
LinesOf(lines, id) == {i \in DOMAIN lines : lines[i].id = id}
MostRecent(lines, id) ==
    lines[CHOOSE i \in LinesOf(lines, id) : \A j \in LinesOf(lines, id) : j <= i]

\* C21: a create_or_reopen or update_status call that returns has appended
\* exactly one line and left the lines before it as they were; a call that
\* raised has changed nothing; the current state of an id is always the
\* last line of the file that carries the id.
C21_AppendOnlyLatestWins ==
    /\ (Created \/ Updated) =>
          /\ Len(backlog) = Len(before) + 1
          /\ SubSeq(backlog, 1, Len(before)) = before
          /\ NewLine.id = IF Created THEN bret.id ELSE bcall.id
    /\ (bcall.fn \in {"create_or_reopen", "update_status"} /\ bret.raised) =>
          backlog = before
    /\ \A id \in IdsIn(backlog) : LastOf(backlog, id) = <<MostRecent(backlog, id)>>
    /\ Len(latest_by_id(backlog)) = Cardinality(IdsIn(backlog))

C21_Witness ==
    /\ Updated
    /\ Len(backlog) = 3
    /\ backlog[1].id = bcall.id /\ backlog[2].id # bcall.id
    /\ backlog[1].status # NewLine.status

\* The lines of a file that an earlier create_or_reopen call with the same
\* (kind, file, line, rule, title) left: they carry the five fields and a
\* digest (update_status copies them to the lines it adds to the item).
SameTuple(l, k) ==
    /\ l.kind = k.kind /\ l.file = k.file /\ l.line = k.line /\ l.rule = k.rule
    /\ l.title = k.title
    /\ l.meta.digest # NoDigest
CreatedBefore(k) == {before[i].id : i \in {j \in DOMAIN before : SameTuple(before[j], k)}}

\* C22: when create_or_reopen is called again with the (kind, file, line,
\* rule, title) of an earlier call whose item is still open, it returns the
\* id of that item and appends exactly one line, a todo line of that id.
C22_SecondCallReopens ==
    Created =>
        \A id \in CreatedBefore(bcall.issue) :
            MostRecent(before, id).status \notin Closed =>
                /\ bret.id = id
                /\ backlog = Append(before, NewLine)
                /\ NewLine.id = id /\ NewLine.status = "todo"

C22_Witness ==
    /\ Created
    /\ Len(before) = 2
    /\ CreatedBefore(bcall.issue) = {before[1].id}
    /\ before[2].id = before[1].id /\ before[2].status = "review"
    /\ bret.id = before[1].id

\* C23 (as claimed): when the only item with the digest is closed (done or
\* blocked), create_or_reopen leaves it closed: the line it appends belongs
\* to another item.
C23_ClosedItemStaysClosed ==
    Created =>
        \A id \in IdsIn(before) :
            (/\ MostRecent(before, id).meta.digest = DigestOf(bcall.issue)
             /\ MostRecent(before, id).status \in Closed) =>
                /\ NewLine.id # id
                /\ MostRecent(backlog, id).status \in Closed

\* C24 (as claimed): the line update_status appends for an id that has
\* lines carries the requested status, and the kind, title, owner, file,
\* line, rule, source, created_at and digest of the id's latest line.
C24_UpdateInheritsFields ==
    (Updated /\ bcall.id \in IdsIn(before)) =>
        LET last == MostRecent(before, bcall.id)
        IN  /\ NewLine.status = bcall.status
            /\ NewLine.kind = last.kind /\ NewLine.title = last.title
            /\ NewLine.owner = last.owner /\ NewLine.file = last.file
            /\ NewLine.line = last.line /\ NewLine.rule = last.rule
            /\ NewLine.source = last.source
            /\ NewLine.meta.digest = last.meta.digest
            /\ NewLine.created_at = last.created_at

\* A pick_batch call that returned, and the items it could return: those
\* whose last line is a todo line that passes the filters.
Picked == bcall.fn = "pick_batch"
InBatch == {bret.batch[i].id : i \in DOMAIN bret.batch}
Eligible ==
    {id \in IdsIn(backlog) :
        /\ MostRecent(backlog, id).status = "todo"
        /\ Filters(MostRecent(backlog, id).kind, bcall.kinds)
        /\ Filters(MostRecent(backlog, id).owner, bcall.owners)}

\* C25: pick_batch returns at most `limit` items, no item twice; each is
\* the last line of its id, a todo line that passes the kind and owner
\* filters.
C25_BatchIsTodoWithinLimit ==
    Picked =>
        /\ Len(bret.batch) <= bcall.limit
        /\ Cardinality(InBatch) = Len(bret.batch)
        /\ InBatch \subseteq Eligible
        /\ \A i \in DOMAIN bret.batch :
              bret.batch[i] = MostRecent(backlog, bret.batch[i].id)

C25_Witness ==
    /\ Picked
    /\ bcall.limit = 1 /\ Len(bret.batch) = 1
    /\ \E i \in DOMAIN backlog :
          /\ backlog[i].status = "todo"
          /\ backlog[i].id \notin Eligible
          /\ Filters(backlog[i].kind, bcall.kinds)
          /\ Filters(backlog[i].owner, bcall.owners)

\* The place in the file of the line that created an item.
FirstLine(id) == CHOOSE i \in LinesOf(backlog, id) : \A j \in LinesOf(backlog, id) : i <= j
PlaceInBatch(id) == CHOOSE i \in DOMAIN bret.batch : bret.batch[i].id = id

\* C26 (as claimed): of two eligible items the one created first is never
\* left out of the batch in favour of the other, nor returned after it.
C26_FifoByCreation ==
    Picked =>
        \A x, y \in Eligible :
            (FirstLine(x) < FirstLine(y) /\ y \in InBatch) =>
                /\ x \in InBatch
                /\ PlaceInBatch(x) < PlaceInBatch(y)

C28_FirstNonEmptyInOrder ==
    parsed.state = "returned" =>
        LET manifest == _parse_json_manifest(raw_text).files
            multi == _parse_per_file_fences(raw_text)
            single == _extract_single_fence(raw_text)
        IN  /\ manifest # <<>> => parsed.via = "manifest" /\ parsed.files = manifest
            /\ (manifest = <<>> /\ multi # <<>>) =>
                  parsed.via = "multi" /\ parsed.files = multi
            /\ (manifest = <<>> /\ multi = <<>> /\ Truthy(single)) =>
                  /\ parsed.via = "single"
                  /\ Len(parsed.files) = 1
                  /\ parsed.files[1].path = default_target
                  /\ parsed.files[1].content = single[1]
            /\ (manifest = <<>> /\ multi = <<>> /\ ~Truthy(single)) =>
                  parsed.via = "none" /\ parsed.files = <<>>

C28_Witness ==
    /\ parsed.via = "manifest"
    /\ raw_text = <<PyFileA, JsonManifest>>
    /\ Len(parsed.files) = 2

\* A block meets the multi-file format: a file header, a relative path no
\* earlier block has, and a body of at least 5 characters after the header.
MeetsMultiFile(i) ==
    /\ HasHeader(raw_text[i])
    /\ ~IsAbs(raw_text[i].header.path)
    /\ \A j \in 1..(i - 1) : raw_text[j].header.path # raw_text[i].header.path
    /\ BodyLen(raw_text[i].rest) >= 5

\* C29 (as claimed): when a block of the text does not meet the multi-file
\* format, the text is not taken as multi-file and no file is extracted from
\* it under that format.
C29_NoPartialAcceptance ==
    (\E i \in DOMAIN raw_text : ~MeetsMultiFile(i)) =>
        /\ looks_multi # "True"
        /\ parsed.via # "multi"

\* -------------------------------------------------- claims: the cycle
\* C30: whatever the cycle writes of the Creator's proposal, by
\* write_files_bundle in run_crew or by rewrite_module in main, it writes
\* with the Auditor's decision GO and the Ethicist's vote APPROVE.
C30_WritesOnlyOnGoAndApprove ==
    (written_paths # {} \/ module_rewritten) =>
        (auditor.decision = "GO" /\ ethicist.decision = "APPROVE")

C30_Witness ==
    /\ cpc = "done"
    /\ auditor.decision = "NO-GO"
    /\ others_approve /\ auditor.approves /\ ethicist.approves
    /\ extract_code_block(raw_text) # EmptyContent
    /\ written_paths = {} /\ ~module_rewritten

\* ----------------------------------------------------- claims: the loader
\* Thread t is in a load_core call that was given consent_ok = False.
Unconsented(c) == c.fn = "load_core" /\ ~c.consent_ok
\* A step of thread t.
StepOf(t) == pc'[t] # pc[t]

\* C31: load_core without consent returns False and does nothing: no step
\* of such a call changes the initialization flag, the ledger file or a
\* lock, none starts a record_consent, and the call returns False.
C31_NoConsentNoEffect ==
    [][\A t \in Threads :
          (StepOf(t) /\ (Unconsented(call[t]) \/ Unconsented(call'[t]))) =>
              /\ UNCHANGED <<core_initialized, ledger, ledger_exists, recorded, nrec,
                             loader_lock, inproc_lock, file_lock>>
              /\ Unconsented(call[t]) => (pc'[t] = "idle" /\ ret'[t] = "False")]_vars

C31_Witness ==
    /\ ret["p1t1"] = "False" /\ pc["p1t1"] = "idle"
    /\ core_initialized["p1"]
    /\ Len(ledger) = 1

\* C32 (as claimed): once the core is initialized, a load_core call with
\* consent changes no state, neither the flag nor the ledger, and returns
\* True.
C32_LoadCoreIdempotent ==
    [][\A t \in Threads :
          (StepOf(t) /\ call[t].fn = "load_core" /\ call[t].consent_ok
             /\ call[t].initialized) =>
              /\ UNCHANGED <<core_initialized, ledger, ledger_exists>>
              /\ pc'[t] = "idle" => ret'[t] = "True"]_vars

\* The step in which thread t turns the core of its process initialized.
Initializes(t) ==
    /\ StepOf(t)
    /\ ~core_initialized[ProcOf(t)] /\ core_initialized'[ProcOf(t)]
EntryAt(i, t, m) == i \in 1..Len(ledger) /\ IsEntryOf(ledger[i], call[t].actor, m)

C38_LockReleasedAfterRecord ==
    \A p \in Procs :
        inproc_lock[p] # None => pc[inproc_lock[p]] \in {"locked", "opened"}

\* ------------------------------------------------- claims: the import
\* Something the import must not do happens in this step: the ledger or its
\* file changes, a core becomes initialized, the working tree changes.
Effect ==
    \/ ledger' # ledger \/ ledger_exists' # ledger_exists
    \/ core_initialized' # core_initialized
    \/ fs' # fs \/ backups' # backups \/ dest' # dest

\* C33: importing the package has no side effects: the step of the import
\* creates no file or directory, appends nothing to the ledger and leaves
\* the core uninitialized; such effects occur only in steps of load_core or
\* enable_core calls, which a process makes after its import.
C33_ImportHasNoSideEffects ==
    [][/\ (imported' # imported) => ~Effect
       /\ Effect => \E t \in Threads :
                       /\ StepOf(t) /\ imported[ProcOf(t)]
                       /\ call[t].fn \in {"load_core", "enable_core"} /\ call[t].consent_ok
       /\ \A p \in Procs : core_initialized'[p] => imported'[p]]_vars

C33_Witness ==
    /\ imported["p1"] /\ imported["p2"]
    /\ ~ledger_exists /\ ledger = <<>>
    /\ ~core_initialized["p1"] /\ ~core_initialized["p2"]
    /\ ret["p1t1"] = "False"

\* ------------------------------------------------- claims: the backups
\* This step overwrites the existing file at l: it had a content and has
\* another now (a removal is not an overwrite).
Overwrites(l) ==
    /\ fs[l] \notin {"absent", "dir", "partial"}
    /\ fs'[l] # fs[l] /\ fs'[l] # "absent"

\* C34 (as claimed): whenever an upsert or update overwrites an existing
\* target, of whatever write path, a backup with the target's previous
\* content is there when the content changes; the only writes without one
\* are those whose backup failed (write_files and write_files_bundle print
\* the failure and write all the same).
C34_BackupBeforeOverwrite ==
    [][\A l \in FileLocs :
          Overwrites(l) =>
              \/ \E b \in backups' : b.target = l /\ b.content = fs[l]
              \/ engine \in {"write_files", "write_files_bundle"} /\ backups' = backups]_vars

\* ------------------------------------------- claims: the query with since
\* The entry's timestamp is greater than or equal to since.
AtOrAfter(stamp, since) == Compares(stamp, since) /\ stamp.at >= since.at

\* C35 (as claimed): a query with since answers True only if the ledger
\* holds an entry of that actor and mode whose timestamp is at or after
\* since; older entries, and entries whose timestamp cannot be compared
\* with since, do not make it True.
C35_SinceGatesTheQuery ==
    (reply.op = "query" /\ reply.since.kind # "none" /\ reply.result) =>
        \E i \in 1..Len(reply.read) :
            /\ IsEntryOf(reply.read[i], reply.actor, reply.mode)
            /\ AtOrAfter(reply.read[i].ts, reply.since)

\* ------------------------------------------- claims: two concurrent creates
Returned(w) == creating[w].pc = "returned"
SameIssue == creating["w1"].issue = creating["w2"].issue
IdsOfTuple(k) == {backlog[i].id : i \in {j \in DOMAIN backlog : SameTuple(backlog[j], k)}}

\* C39: when two concurrent create_or_reopen calls with the same (kind, file,
\* line, rule, title) have both returned, in whatever order their steps ran,
\* both returned the id made of the tuple's digest, the latest line of that id
\* has status todo, and every line of the file for that tuple carries that id.
C39_OneIdentityUnderRace ==
    (Returned("w1") /\ Returned("w2") /\ SameIssue) =>
        LET k == creating["w1"].issue
            id == DigestId(DigestOf(k))
        IN  /\ creating["w1"].id = id
            /\ creating["w2"].id = id
            /\ LastOf(backlog, id) # <<>>
            /\ LastOf(backlog, id)[1].status = "todo"
            /\ IdsOfTuple(k) = {id}

\* Both calls looked before either wrote, found nothing open, and each
\* appended its line.
C39_Witness ==
    /\ Returned("w1") /\ Returned("w2") /\ SameIssue
    /\ creating["w1"].found = <<>> /\ creating["w2"].found = <<>>
    /\ Len(backlog) >= 3
    /\ backlog[Len(backlog)].id = backlog[Len(backlog) - 1].id

\* ------------------------------------------------- claims: the memory store
Added(w) == adding[w].pc = "returned"
\* The events in the file when the first of the two calls read it.
StoredBefore ==
    IF Len(adding["w1"].data) <= Len(adding["w2"].data)
    THEN adding["w1"].data ELSE adding["w2"].data
NewEvents == SubSeq(memory, Len(StoredBefore) + 1, Len(memory))

\* C40: when two add_event calls of two threads on one MemoryStore have both
\* returned, the stored list is the list from before the calls followed by
\* the two events, in one order or the other.
C40_NoEventLost ==
    (Added("w1") /\ Added("w2")) =>
        /\ Len(memory) = Len(StoredBefore) + 2
        /\ SubSeq(memory, 1, Len(StoredBefore)) = StoredBefore
        /\ LET e1 == WithDefaults(adding["w1"].event)
               e2 == WithDefaults(adding["w2"].event)
           IN  NewEvents \in {<<e1, e2>>, <<e2, e1>>}

====
